---- MODULE Spec2Model ----
(***************************************************************************)
(* Duplicate-detection and resilient persistence engine of the OLX         *)
(* scraper (src/scraper_dev_backup.py): the price-history document, its    *)
(* validator, the scraping engine's load / filter / save, the backup       *)
(* manager, the file lock manager, the protected download and upload of    *)
(* GitHubDatabaseSync and the headless run that composes them.             *)
(*                                                                         *)
(* Prices are integers in tenths of the currency unit (10000.5 is 100005), *)
(* so PRICE_CHANGE_THRESHOLD = 1.0 is 10.  Times are values of one coarse  *)
(* clock; datetime.now() reads it.                                         *)
(***************************************************************************)
EXTENDS Integers, Sequences, FiniteSets, TLC

VARIABLES
  clock,          \* datetime.now(), in ticks
  remote,         \* data/price_history.json in the GitHub repository
  localFile,      \* RESULTS_DIR/price_history.json
  backups,        \* RESULTS_DIR/database_backups, oldest write first
  lockHolder,     \* per lock file name: the run holding its flock, or NoRun
  session,        \* per run: args.session_id
  pc,             \* per run: position in run_headless_scraper
  batch,          \* per run: all_scraped_cars
  duplicate_db,   \* per run: engine.duplicate_db
  classes,        \* per run: filter_duplicates' verdict for each record of the batch
  handle,         \* per run: lock_handle of the safe_* call in progress
  dl,             \* per run: what safe_download_database returned
  ul,             \* per run: what safe_upload_database returned
  lastOp,         \* engine API specification: the last engine call
  supabase,       \* the Supabase database: the cars and price_history tables
  lockDir,        \* RESULTS_DIR/locks: per lock file name, the file
  lock_file,      \* per run: the lock file it has open in acquire_database_lock
  call            \* direct calls of one component: what the last call was given
                  \* and what it returned

vars == <<clock, remote, localFile, backups, lockHolder, session, pc, batch,
          duplicate_db, classes, handle, dl, ul, lastOp, supabase, lockDir, lock_file, call>>

----------------------------------------------------------------------------
(* Bounds of the model *)

MaxClock == 1
MaxBatch == 2
MaxHist == 3
MaxObs == 7
MaxSeconds == 2

(* Program constants *)

PRICE_CHANGE_THRESHOLD == 10
DOWNLOAD_RETRY_ATTEMPTS == 3
UPLOAD_RETRY_ATTEMPTS == 5
MAX_DATABASE_BACKUPS == 5
SAFETY_MIN_CARS == 100

Absent == 0 - 1
Runs == {"r1", "r2"}
NoRun == "none"
SessionIds == {"s1", "s2"}

Tenths(n) == n * 10

----------------------------------------------------------------------------
(* Generic helpers *)

RECURSIVE SumOver(_, _)
SumOver(f, S) ==
  IF S = {} THEN 0
  ELSE LET x == CHOOSE y \in S : TRUE IN f[x] + SumOver(f, S \ {x})

Abs(n) == IF n < 0 THEN 0 - n ELSE n

----------------------------------------------------------------------------
(* Price text -> number: extract_numeric_price.  A price text is a         *)
(* sequence of characters; "e" stands for any character that is neither a  *)
(* digit, a dot nor a comma (currency sign, letter, blank).                *)

Digits == {"0", "1", "2", "3", "4", "5", "6", "7", "8", "9"}

DigitVal(c) ==
  CASE c = "0" -> 0 [] c = "1" -> 1 [] c = "2" -> 2 [] c = "3" -> 3
    [] c = "4" -> 4 [] c = "5" -> 5 [] c = "6" -> 6 [] c = "7" -> 7
    [] c = "8" -> 8 [] c = "9" -> 9

IsPriceChar(c) == c \in Digits \cup {".", ","}
NotDot(c) == c # "."
IsDot(c) == c = "."
IsDigit(c) == c \in Digits

RECURSIVE DigitsValue(_)
DigitsValue(s) ==
  IF s = <<>> THEN 0
  ELSE DigitsValue(SubSeq(s, 1, Len(s) - 1)) * 10 + DigitVal(s[Len(s)])

\* float(s) of a string of digits and dots, in tenths (exact for at most one
\* fractional digit); Absent when float() raises ValueError.
FloatTenths(s) ==
  LET dots == SelectSeq(s, IsDot)
      nd == Len(SelectSeq(s, IsDigit))
  IN  IF Len(dots) > 1 \/ nd = 0 THEN Absent
      ELSE IF Len(dots) = 0 THEN Tenths(DigitsValue(s))
      ELSE LET p == CHOOSE i \in 1..Len(s) : s[i] = "."
               ip == SubSeq(s, 1, p - 1)
               fp == SubSeq(s, p + 1, Len(s))
           IN Tenths(DigitsValue(ip)) + (IF fp = <<>> THEN 0 ELSE DigitVal(fp[1]))

NO_PRICE == Tenths(999999)

\* re.sub(r'[^\d.,]', '', text).replace('.', '').replace(',', '.')
CleanPriceText(price_text) ==
  LET undotted == SelectSeq(SelectSeq(price_text, IsPriceChar), NotDot)
  IN [i \in 1..Len(undotted) |-> IF undotted[i] = "," THEN "." ELSE undotted[i]]

extract_numeric_price(price_text) ==
  IF price_text = <<>> THEN NO_PRICE
  ELSE IF SelectSeq(price_text, IsPriceChar) = <<>> THEN NO_PRICE
  ELSE LET v == FloatTenths(CleanPriceText(price_text))
       IN IF v = Absent THEN NO_PRICE ELSE v

----------------------------------------------------------------------------
(* The persisted document: {history: {id: [entry, ...]}, metadata: {...}}. *)
(* An entry records which keys it has (fields) and the values the engine   *)
(* reads: date / timestamp, price, url.                                    *)

ScraperFields == {"date", "price", "price_text", "title", "link", "source"}
ValidatorFields == {"timestamp", "price", "url"}

\* the entry save_duplicate_database appends for a scraped car
ScraperEntry(d, p) ==
  [fields |-> ScraperFields, date |-> d, timestamp |-> Absent, price |-> p,
   url |-> ""]

\* an entry in the shape _validate_price_entry accepts
ValidatorEntry(t, p) ==
  [fields |-> ValidatorFields, date |-> Absent, timestamp |-> t, price |-> p,
   url |-> "http://olx"]

NoStats == <<>>

EmptyMetadata ==
  [isDict |-> TRUE, last_validated |-> Absent, validation_stats |-> NoStats,
   last_update |-> Absent, merge_stats |-> NoStats,
   created |-> Absent, created_reason |-> "", recovery_chain |-> <<>>]

EmptyHistory == [i \in {} |-> <<>>]

EmptyDoc == [history |-> EmptyHistory, metadata |-> EmptyMetadata]

NoFile == [exists |-> FALSE, doc |-> EmptyDoc]
FileOf(d) == [exists |-> TRUE, doc |-> d]

NumIds(h) == Cardinality(DOMAIN h)
NumObs(h) == SumOver([i \in DOMAIN h |-> Len(h[i])], DOMAIN h)

----------------------------------------------------------------------------
(* DatabaseValidator *)

validate_price_entry(entry) ==
  /\ \A f \in {"timestamp", "price", "url"} : f \in entry.fields
  /\ entry.timestamp # Absent
  /\ entry.price >= 0
  /\ entry.url \in {"http://olx", "https://olx"}

\* a count of the ids that lost an entry
\* a history list passed on as it is
uncorrected_car_history(car_history) == car_history

\* corrected_car_history: the entries of one id's list that
\* _validate_price_entry accepts, in their order
corrected_car_history(car_history) == SelectSeq(car_history, validate_price_entry)

corrupted_ids(h) ==
  Cardinality({i \in DOMAIN h : SelectSeq(h[i], validate_price_entry) # h[i]})

\* corrupted_entries when the loops end: one per entry that
\* _validate_price_entry rejected
corrupted_count(h) ==
  NumObs([i \in DOMAIN h |-> SelectSeq(h[i], LAMBDA e : ~validate_price_entry(e))])

\* validate_database(db_content) at time now: (is_valid, corrected_data) and the
\* input as the call leaves it (corrected_db['metadata'] is the input's own
\* metadata object, which update() stamps).
validate_database(db, now) ==
  IF ~db.metadata.isDict
  THEN [is_valid |-> FALSE, has_corrected |-> FALSE, corrected |-> EmptyDoc,
        input |-> db]
  ELSE
    LET h == db.history
        kept == [i \in DOMAIN h |-> corrected_car_history(h[i])]
        corrected_history == [i \in {j \in DOMAIN h : kept[j] # <<>>} |-> kept[i]]
        total_entries == NumObs(kept)
        corrupted_entries == corrupted_count(h)
        meta == [db.metadata EXCEPT
                   !.last_validated = now,
                   !.validation_stats =
                      <<NumIds(corrected_history), total_entries, corrupted_entries>>]
    IN [is_valid |-> corrupted_entries = 0,
        has_corrected |-> TRUE,
        corrected |-> [history |-> corrected_history, metadata |-> meta],
        input |-> [history |-> h, metadata |-> meta]]

----------------------------------------------------------------------------
(* OLXScrapingEngine *)

\* a scraped CarData: extract_basic_car_data computes price_numeric from the text
Car(id, text, d) ==
  [unique_id |-> id, price_text |-> text,
   price_numeric |-> extract_numeric_price(text), scrape_date |-> d]

EmptyDb == [i \in {} |-> [last_price |-> 0, last_seen |-> 0, first_seen |-> 0]]

\* the latest-state cache built from a history (the loops of load and save)
LatestState(h) ==
  [i \in {j \in DOMAIN h : h[j] # <<>>} |->
     LET latest == h[i][Len(h[i])]
     IN [last_price |-> IF "price" \in latest.fields THEN latest.price ELSE 0,
         last_seen |-> IF "date" \in latest.fields THEN latest.date ELSE Absent,
         first_seen |-> IF "date" \in h[i][1].fields THEN h[i][1].date ELSE Absent]]

\* duplicate_db when load_duplicate_database returns: the for loop over the
\* history has no break, so its else clause runs after it and resets the cache
DuplicateDbAfterLoad(data) ==
  LET looped == LatestState(data.history)
  IN EmptyDb

\* the data load_duplicate_database() takes from the local file, and the file
\* as it leaves it (a corrected copy is written back)
LoadFromFile(file, now) ==
  IF ~file.exists THEN [data |-> EmptyDoc, file |-> file]
  ELSE LET v == validate_database(file.doc, now)
       IN IF v.has_corrected
          THEN [data |-> v.corrected, file |-> FileOf(v.corrected)]
          ELSE [data |-> file.doc, file |-> file]

\* filter_duplicates' decision for one record
Classify(db, car) ==
  IF car.unique_id \notin DOMAIN db THEN "new"
  ELSE IF Abs(car.price_numeric - db[car.unique_id].last_price) >= PRICE_CHANGE_THRESHOLD
       THEN "changed" ELSE "unchanged"

filter_duplicates(db, cars) == [k \in 1..Len(cars) |-> Classify(db, cars[k])]

\* filter_duplicates' list and counters before its loop
FilterStart ==
  [filtered_cars |-> <<>>, duplicate_count |-> 0, new_count |-> 0,
   price_change_count |-> 0]

\* a pass that counts only the records it keeps
counted_kept(acc, car, class) ==
  IF class = "new"
  THEN [acc EXCEPT !.filtered_cars = Append(@, car), !.new_count = @ + 1]
  ELSE IF class = "changed"
  THEN [acc EXCEPT !.filtered_cars = Append(@, car), !.price_change_count = @ + 1]
  ELSE acc

\* one pass of the loop: the record is kept and counted, or counted only
counted(acc, car, class) ==
  IF class = "new"
  THEN [acc EXCEPT !.filtered_cars = Append(@, car), !.new_count = @ + 1]
  ELSE IF class = "changed"
  THEN [acc EXCEPT !.filtered_cars = Append(@, car), !.price_change_count = @ + 1]
  ELSE [acc EXCEPT !.duplicate_count = @ + 1]

\* the loop of filter_duplicates over cars_data: filtered_cars and the three
\* counters when it ends
RECURSIVE filter_loop(_, _, _)
filter_loop(db, cars, acc) ==
  IF cars = <<>> THEN acc
  ELSE filter_loop(db, Tail(cars), counted(acc, cars[1], Classify(db, cars[1])))

RECURSIVE MergeCars(_, _)
MergeCars(h, cars) ==
  IF cars = <<>> THEN h
  ELSE LET car == cars[1]
           e == ScraperEntry(car.scrape_date, car.price_numeric)
           h2 == IF car.unique_id \in DOMAIN h
                 THEN [h EXCEPT ![car.unique_id] = Append(@, e)]
                 ELSE [i \in DOMAIN h \cup {car.unique_id} |->
                         IF i = car.unique_id THEN <<e>> ELSE h[i]]
       IN MergeCars(h2, Tail(cars))

MergeHistory_overwrite(existing, cars) == MergeCars(EmptyHistory, cars)

\* existing history with one entry appended per car, in batch order
MergeHistory(existing, cars) == MergeCars(existing, cars)

\* save_duplicate_database(new_cars): the document written and the cache kept
save_duplicate_database(file, cars, now) ==
  LET existing == IF file.exists THEN file.doc.history ELSE EmptyHistory
      merged == MergeHistory(existing, cars)
      new_entries == Cardinality(DOMAIN merged \ DOMAIN existing)
      updated == [history |-> merged,
                  metadata |-> [EmptyMetadata EXCEPT
                     !.last_update = now,
                     !.merge_stats = <<NumIds(existing), new_entries,
                                       Len(cars) - new_entries, NumIds(merged),
                                       NumObs(merged)>>]]
      v == validate_database(updated, now)
  IN [file |-> FileOf(IF v.has_corrected THEN v.corrected ELSE updated),
      db |-> LatestState(merged)]

----------------------------------------------------------------------------
(* DatabaseBackupManager.  The backup directory is a sequence in order of  *)
(* modification time, oldest first; writing a backup under a name that     *)
(* exists replaces that file.  The clock stays below BACKUP_RETENTION_DAYS, *)
(* so no backup expires by age.                                            *)

\* price_history_backup_{timestamp}{_session_id}.json
BackupName(now, suffix) == <<now>> \o suffix

OtherName(dir, name) == SelectSeq(dir, LAMBDA b : b.name # name)

cleanup_old_backups(dir) ==
  IF Len(dir) > MAX_DATABASE_BACKUPS
  THEN SubSeq(dir, Len(dir) - MAX_DATABASE_BACKUPS + 1, Len(dir))
  ELSE dir

\* what create_backup writes: the corrected data when the content is not
\* valid and a correction exists, else the content
backup_written(v) ==
  IF ~v.is_valid /\ v.has_corrected THEN v.corrected ELSE v.input

create_backup_of(dir, v, name) ==
  [dir |-> cleanup_old_backups(Append(OtherName(dir, name),
                                      [name |-> name, doc |-> backup_written(v)])),
   content |-> v.input]

\* create_backup(database_content, session_id): the directory afterwards and
\* the caller's content object as validation leaves it
create_backup(dir, database_content, suffix, now) ==
  create_backup_of(dir, validate_database(database_content, now),
                   BackupName(now, suffix))

\* the walk taken oldest first
OldestUsable(dir, k, now) ==
  IF \E j \in 1..k : validate_database(dir[j].doc, now).has_corrected
  THEN CHOOSE j \in 1..k :
         /\ validate_database(dir[j].doc, now).has_corrected
         /\ \A i \in 1..(j - 1) : ~validate_database(dir[i].doc, now).has_corrected
  ELSE 0

RECURSIVE LatestUsable(_, _, _)
LatestUsable(dir, k, now) ==
  IF k = 0 THEN 0
  ELSE IF validate_database(dir[k].doc, now).has_corrected THEN k
  ELSE LatestUsable(dir, k - 1, now)

\* the content a validated document is used as: itself when valid, else its
\* corrected data
usable_content(v) == IF v.is_valid THEN v.input ELSE v.corrected

backup_found(dir, k, now) ==
  IF k = 0 THEN [found |-> FALSE, name |-> <<>>, content |-> EmptyDoc]
  ELSE [found |-> TRUE, name |-> dir[k].name,
        content |-> usable_content(validate_database(dir[k].doc, now))]

\* get_latest_valid_backup(): newest first, the first backup that is valid or
\* correctable
get_latest_valid_backup(dir, now) ==
  backup_found(dir, LatestUsable(dir, Len(dir), now), now)

\* the result of restore_from_backup and the target file after it
Restored(ok, target) == [success |-> ok, file |-> target]

\* a restore that copies the backup without validating it
restore_unvalidated(dir, backup_path, target, now, diskOk) ==
  IF \A k \in 1..Len(dir) : dir[k].name # backup_path THEN Restored(FALSE, target)
  ELSE IF ~diskOk THEN Restored(FALSE, target)
  ELSE Restored(TRUE, FileOf((CHOOSE b \in {dir[k] : k \in 1..Len(dir)} :
                                b.name = backup_path).doc))

\* restore_from_backup(backup_path, target_path): the backup is read and
\* validated, its corrected data written to a temporary file and moved onto
\* the target; any failure returns False
restore_from_backup(dir, backup_path, target, now, diskOk) ==
  IF \A k \in 1..Len(dir) : dir[k].name # backup_path THEN Restored(FALSE, target)
  ELSE LET b == CHOOSE b \in {dir[k] : k \in 1..Len(dir)} : b.name = backup_path
           v == validate_database(b.doc, now)
       IN IF ~v.has_corrected \/ ~diskOk THEN Restored(FALSE, target)
          ELSE Restored(TRUE, FileOf(v.corrected))

----------------------------------------------------------------------------
(* GitHubDatabaseSync.download_database and SafeDatabaseOperations         *)

\* what one request to the GitHub API meets: the server answers (200 with the
\* document, or 404 when it has none: "served"), the token is refused
\* ("refused"), no answer in time ("timeout")
HttpStatus(rem, answer) ==
  IF answer = "served" THEN (IF rem.exists THEN "200" ELSE "404")
  ELSE IF answer = "refused" THEN "401" ELSE "none"

\* download_database(local_path): 200 writes the remote document to the
\* working copy, 404 writes an empty one; both return True
download_database(rem, answer, file, diskOk) ==
  LET status == HttpStatus(rem, answer)
      ok == status \in {"200", "404"} /\ diskOk
  IN [success |-> ok, status |-> status,
      file |-> IF ~ok THEN file
               ELSE IF status = "200" THEN FileOf(rem.doc) ELSE FileOf(EmptyDoc)]

\* one element of the provenance chain the stages append to
Stage(s, a) == [stage |-> s, arg |-> a]

\* a remote attempt of safe_download that returns: the content, backed up
github_returned(label, attempt, file, b, status) ==
  [returned |-> TRUE, content |-> b.content,
   source |-> <<Stage(label, <<attempt>>)>>,
   file |-> file, dir |-> b.dir, statuses |-> <<status>>]

\* a pass that hands on a correctable download as it came
github_attempt_uncorrected(attempt, d, v, dir, session_id, now, rest) ==
  IF d.success /\ d.file.exists /\ v.has_corrected
  THEN github_returned("GitHub download corrected", attempt, d.file,
                       create_backup(dir, v.input, <<session_id>>, now), d.status)
  ELSE [rest EXCEPT !.statuses = <<d.status>> \o @]

\* one pass of the retry loop after download_database (d) and the validation
\* of the working copy (v); rest is what the later passes give
github_attempt(attempt, d, v, dir, session_id, now, rest) ==
  IF d.success /\ d.file.exists /\ v.is_valid
  THEN github_returned("GitHub download", attempt, d.file,
                       create_backup(dir, v.input, <<session_id>>, now), d.status)
  ELSE IF d.success /\ d.file.exists /\ v.has_corrected
  THEN github_returned("GitHub download corrected", attempt, FileOf(v.corrected),
                       create_backup(dir, v.corrected, <<session_id>>, now), d.status)
  ELSE [rest EXCEPT !.statuses = <<d.status>> \o @]

\* Strategy 1 of safe_download: the retry loop over download_database
RECURSIVE github_download(_, _, _, _, _, _, _, _)
RECURSIVE github_downloaded(_, _, _, _, _, _, _, _)
github_downloaded(attempt, rem, answers, d, dir, session_id, now, diskOk) ==
  github_attempt(attempt, d, validate_database(d.file.doc, now), dir, session_id, now,
                 github_download(attempt + 1, rem, answers, d.file, dir,
                                 session_id, now, diskOk))

github_download_once(attempt, rem, answers, file, dir, session_id, now, diskOk) ==
  IF attempt > 1
  THEN [returned |-> FALSE, content |-> EmptyDoc, source |-> <<>>,
        file |-> file, dir |-> dir, statuses |-> <<>>]
  ELSE github_downloaded(attempt, rem, answers,
                         download_database(rem, answers[attempt], file, diskOk),
                         dir, session_id, now, diskOk)

github_download(attempt, rem, answers, file, dir, session_id, now, diskOk) ==
  IF attempt > DOWNLOAD_RETRY_ATTEMPTS
  THEN [returned |-> FALSE, content |-> EmptyDoc, source |-> <<>>,
        file |-> file, dir |-> dir, statuses |-> <<>>]
  ELSE github_downloaded(attempt, rem, answers,
                         download_database(rem, answers[attempt], file, diskOk),
                         dir, session_id, now, diskOk)

\* what safe_download returns, and the working copy and backups it leaves
Downloaded(success, content, source, file, dir, statuses) ==
  [success |-> success, content |-> content, source |-> source, file |-> file,
   dir |-> dir, statuses |-> statuses]

GitHubFailed == <<Stage("GitHub download failed", <<>>)>>
BackupFailed == Append(GitHubFailed, Stage("Local backup failed", <<>>))

emergency_db(now, chain) ==
  [history |-> EmptyHistory,
   metadata |-> [EmptyMetadata EXCEPT !.created = now,
                                      !.created_reason = "emergency_fallback",
                                      !.recovery_chain = chain]]

\* Strategy 4: the emergency empty database.  recovery_chain is the
\* source_chain list itself, which the append after the write extends: the
\* file has it without the last stage
emergency_stage(g, now, diskOk) ==
  IF diskOk
  THEN Downloaded(TRUE,
                  emergency_db(now, Append(BackupFailed,
                                           Stage("Emergency empty database", <<>>))),
                  Append(BackupFailed, Stage("Emergency empty database", <<>>)),
                  FileOf(emergency_db(now, BackupFailed)), g.dir, g.statuses)
  ELSE Downloaded(FALSE, EmptyDoc,
                  Append(BackupFailed, Stage("Emergency creation failed", <<>>)),
                  g.file, g.dir, g.statuses)

local_file_returned(g, v, b) ==
  Downloaded(TRUE, b.content,
             Append(BackupFailed, Stage("Existing local file (corrected)", <<>>)),
             FileOf(v.corrected), b.dir, g.statuses)

\* Strategy 3: the existing working copy, validated (v)
local_file_stage(g, v, session_id, now, diskOk) ==
  IF g.file.exists /\ v.has_corrected /\ diskOk
  THEN local_file_returned(g, v, create_backup(g.dir, v.corrected, <<session_id>>, now))
  ELSE emergency_stage(g, now, diskOk)

local_backup_stage_skipped(g, bk, session_id, now, diskOk) ==
  local_file_stage(g, validate_database(g.file.doc, now), session_id, now, diskOk)

\* Strategy 2: the latest valid backup (bk), written to the working copy
local_backup_stage(g, bk, session_id, now, diskOk) ==
  IF bk.found /\ diskOk
  THEN Downloaded(TRUE, bk.content,
                  Append(GitHubFailed, Stage("Local backup", bk.name)),
                  FileOf(bk.content), g.dir, g.statuses)
  ELSE local_file_stage(g, validate_database(g.file.doc, now), session_id, now, diskOk)

fallback_chain(g, session_id, now, diskOk) ==
  IF g.returned
  THEN Downloaded(TRUE, g.content, g.source, g.file, g.dir, g.statuses)
  ELSE local_backup_stage(g, get_latest_valid_backup(g.dir, now), session_id, now,
                          diskOk)

\* safe_download(local_path, session_id): the fallback chain
safe_download(rem, answers, file, dir, session_id, now, diskOk) ==
  fallback_chain(github_download(1, rem, answers, file, dir, session_id, now, diskOk),
                 session_id, now, diskOk)

Uploaded(success, attempts, file, dir, rem) ==
  [success |-> success, attempts |-> attempts, file |-> file, dir |-> dir,
   rem |-> rem]

\* the retry loop of atomic_upload over upload_database, which sends the
\* working copy, and the backup of the uploaded content
upload_attempts_after_success(v, dir, rem, session_id, now, failures) ==
  IF failures < UPLOAD_RETRY_ATTEMPTS
  THEN Uploaded(TRUE, UPLOAD_RETRY_ATTEMPTS, FileOf(v.corrected),
                create_backup(dir, v.corrected, <<session_id, "uploaded">>, now).dir,
                FileOf(v.corrected))
  ELSE Uploaded(FALSE, UPLOAD_RETRY_ATTEMPTS, FileOf(v.corrected), dir, rem)

upload_attempts_discard(v, dir, rem, session_id, now, failures) ==
  IF failures < UPLOAD_RETRY_ATTEMPTS
  THEN Uploaded(TRUE, failures + 1, FileOf(v.corrected),
                create_backup(dir, v.corrected, <<session_id, "uploaded">>, now).dir,
                FileOf(v.corrected))
  ELSE Uploaded(FALSE, UPLOAD_RETRY_ATTEMPTS, NoFile, dir, rem)

upload_attempts(v, dir, rem, session_id, now, failures) ==
  IF failures < UPLOAD_RETRY_ATTEMPTS
  THEN Uploaded(TRUE, failures + 1, FileOf(v.corrected),
                create_backup(dir, v.corrected, <<session_id, "uploaded">>, now).dir,
                FileOf(v.corrected))
  ELSE Uploaded(FALSE, UPLOAD_RETRY_ATTEMPTS, FileOf(v.corrected), dir, rem)

\* atomic_upload after the pre-upload backup: validation (v), the temporary
\* file written, read back and validated, moved onto the working copy
upload_unvalidated(v, file, dir, rem, session_id, now, failures) ==
  upload_attempts(v, dir, rem, session_id, now, failures)

upload_validated(v, file, dir, rem, session_id, now, failures) ==
  IF ~v.has_corrected THEN Uploaded(FALSE, 0, file, dir, rem)
  ELSE IF ~validate_database(v.corrected, now).is_valid
  THEN Uploaded(FALSE, 0, file, dir, rem)
  ELSE upload_attempts(v, dir, rem, session_id, now, failures)

upload_backed_up(b, file, rem, session_id, now, failures) ==
  upload_validated(validate_database(b.content, now), file, b.dir, rem, session_id,
                   now, failures)

\* atomic_upload(content, local_path, session_id); failures is the number of
\* upload_database calls that fail before one succeeds
atomic_upload(content, file, dir, rem, session_id, now, failures) ==
  upload_backed_up(create_backup(dir, content, <<session_id>>, now), file, rem,
                   session_id, now, failures)

\* atomic_upload on a disk that takes every write ("ok"), none ("no_backup":
\* create_backup returns None) or the backup but not the temporary file
\* ("no_write"); the two failures return False before the retry loop
atomic_upload_on(disk, content, file, dir, rem, session_id, now, failures) ==
  IF disk = "no_backup" THEN Uploaded(FALSE, 0, file, dir, rem)
  ELSE IF disk = "no_write"
  THEN Uploaded(FALSE, 0, file, create_backup(dir, content, <<session_id>>, now).dir, rem)
  ELSE atomic_upload(content, file, dir, rem, session_id, now, failures)

----------------------------------------------------------------------------
(* Inputs of the model *)

\* price texts a listing can carry: "100,5", "101", a text without digits
\* ("pret la cerere"), no text at all
PriceTexts ==
  { <<"1", "0", "0", ",", "5">>, <<"1", "0", "1">>, <<"e", "e">>, <<>> }

\* the listings the scraper can come back with at time now
CarsAt(now) ==
  {Car("A", t, now) : t \in PriceTexts \ {<<>>}} \cup {Car("B", <<>>, now)}

\* documents as the validator leaves them: observations in the shape it accepts
StoredDoc(h) == validate_database([history |-> h, metadata |-> EmptyMetadata], 0).corrected

StoredDocs ==
  { StoredDoc(EmptyHistory),
    StoredDoc([i \in {"A"} |-> <<ValidatorEntry(0, Tenths(100))>>]),
    StoredDoc([i \in {"A", "B"} |->
                 IF i = "A" THEN <<ValidatorEntry(0, Tenths(101) + 5)>>
                 ELSE <<ValidatorEntry(0, Tenths(99)), ValidatorEntry(0, Tenths(101))>>]) }

NoDl == [success |-> FALSE, content |-> EmptyDoc, source |-> <<>>, answers |-> <<>>,
         diskOk |-> TRUE]
NoUl == [success |-> FALSE, attempts |-> 0, failures |-> 0, disk |-> "ok"]

\* no lock file in the lock directory (content: the text after "pid: ", ""
\* for a file without that line); no lock file open
NoLockDir ==
  [n \in SessionIds |-> [exists |-> FALSE, mtime |-> 0, content |-> "", inode |-> 0]]
NoLockFile == [inode |-> 0, waited |-> 0]

\* the Supabase tables, empty; no call made yet
EmptyTable == [i \in {} |-> <<>>]
EmptySupabase == [cars |-> EmptyTable, price_history |-> <<>>]
NoCall == [fn |-> "none"]

----------------------------------------------------------------------------
(* The engine's calls, made directly on one engine (run E) and the local   *)
(* file                                                                    *)

E == "r1"

EngineFrame ==
  UNCHANGED <<remote, backups, lockHolder, session, pc, handle, ul, supabase,
              lockDir, lock_file>>

InitEngine ==
  /\ clock = 0
  /\ remote = NoFile
  /\ localFile \in {NoFile} \cup {FileOf(d) : d \in StoredDocs}
  /\ backups = <<>>
  /\ lockHolder = [s \in SessionIds |-> NoRun]
  /\ session = [r \in Runs |-> "s1"]
  /\ pc = [r \in Runs |-> "api"]
  /\ batch = [r \in Runs |-> <<>>]
  /\ duplicate_db = [r \in Runs |-> EmptyDb]
  /\ classes = [r \in Runs |-> <<>>]
  /\ handle = [r \in Runs |-> FALSE]
  /\ dl = [r \in Runs |-> NoDl]
  /\ ul = [r \in Runs |-> NoUl]
  /\ lastOp = "none"
  /\ supabase = EmptySupabase
  /\ lockDir = NoLockDir
  /\ lock_file = [r \in Runs |-> NoLockFile]
  /\ call = NoCall

\* time passes between the engine's batches (the clock is coarse: the cars of
\* one batch are scraped within one tick)
EngTick ==
  /\ clock < MaxClock
  /\ batch[E] = <<>>
  /\ clock' = clock + 1
  /\ UNCHANGED <<remote, localFile, backups, lockHolder, session, pc, batch,
                 duplicate_db, classes, handle, dl, ul, lastOp, supabase, lockDir, lock_file, call>>

\* enrich_car_data appends one scraped car to the batch
EngScrape(car) ==
  /\ Len(batch[E]) < MaxBatch
  /\ batch' = [batch EXCEPT ![E] = Append(@, car)]
  /\ classes' = [classes EXCEPT ![E] = <<>>]
  /\ call' = NoCall
  /\ lastOp' = "scrape"
  /\ UNCHANGED <<clock, localFile, duplicate_db, dl>>
  /\ EngineFrame

\* engine.load_duplicate_database(validated_content), with the content the
\* protected download hands over: that of the working copy
EngLoadContent ==
  /\ localFile.exists
  /\ duplicate_db' = [duplicate_db EXCEPT ![E] = DuplicateDbAfterLoad(localFile.doc)]
  /\ dl' = [dl EXCEPT ![E] = [NoDl EXCEPT !.success = TRUE,
                                                 !.content = localFile.doc]]
  /\ classes' = [classes EXCEPT ![E] = <<>>]
  /\ call' = NoCall
  /\ lastOp' = "load"
  /\ UNCHANGED <<clock, localFile, batch>>
  /\ EngineFrame

\* engine.load_duplicate_database()
EngLoadFile ==
  LET l == LoadFromFile(localFile, clock)
  IN /\ duplicate_db' = [duplicate_db EXCEPT ![E] = DuplicateDbAfterLoad(l.data)]
     /\ localFile' = l.file
     /\ dl' = [dl EXCEPT ![E] = [NoDl EXCEPT !.success = TRUE,
                                                    !.content = l.data]]
     /\ classes' = [classes EXCEPT ![E] = <<>>]
     /\ call' = NoCall
  /\ call' = NoCall
     /\ lastOp' = "load"
     /\ UNCHANGED <<clock, batch>>
     /\ EngineFrame

\* engine.filter_duplicates(all_scraped_cars)
EngFilter ==
  /\ batch[E] # <<>>
  /\ classes' = [classes EXCEPT ![E] = filter_duplicates(duplicate_db[E], batch[E])]
  /\ call' = [fn |-> "filter_duplicates",
              result |-> filter_loop(duplicate_db[E], batch[E], FilterStart)]
  /\ lastOp' = "filter"
  /\ UNCHANGED <<clock, localFile, batch, duplicate_db, dl>>
  /\ EngineFrame

HistoryRoom(file) ==
  ~file.exists \/ \A i \in DOMAIN file.doc.history : Len(file.doc.history[i]) < MaxHist

\* engine.save_duplicate_database(all_scraped_cars)
EngSave ==
  /\ HistoryRoom(localFile)
  /\ LET s == save_duplicate_database(localFile, batch[E], clock)
     IN /\ localFile' = s.file
        /\ duplicate_db' = [duplicate_db EXCEPT ![E] = s.db]
  /\ batch' = [batch EXCEPT ![E] = <<>>]
  /\ classes' = [classes EXCEPT ![E] = <<>>]
  /\ call' = NoCall
  /\ dl' = [dl EXCEPT ![E] = NoDl]
  /\ lastOp' = "save"
  /\ UNCHANGED clock
  /\ EngineFrame

NextEngine ==
  \/ EngTick
  \/ \E car \in CarsAt(clock) : EngScrape(car)
  \/ EngLoadContent
  \/ EngLoadFile
  \/ EngFilter
  \/ EngSave

SpecEngine == InitEngine /\ [][NextEngine]_vars

----------------------------------------------------------------------------
(* Properties of the engine's calls (SpecEngine) *)

PersistedIds(file) == IF file.exists THEN NumIds(file.doc.history) ELSE 0
PersistedObs(file) == IF file.exists THEN NumObs(file.doc.history) ELSE 0

ClassAgainst(h, car) ==
  IF car.unique_id \notin DOMAIN h \/ h[car.unique_id] = <<>> THEN "new"
  ELSE LET last == h[car.unique_id][Len(h[car.unique_id])]
       IN IF Abs(car.price_numeric - last.price) >= PRICE_CHANGE_THRESHOLD
          THEN "changed" ELSE "unchanged"

\* C9: after load_duplicate_database(content), filter_duplicates classifies
\* every record new iff its id is absent from content's history, changed iff
\* present and the price differs from the last observation's by at least the
\* threshold, unchanged iff present and below it.
C9_ClassifiedAgainstLoaded ==
  (lastOp = "filter" /\ dl[E].success) =>
     \A k \in 1..Len(batch[E]) :
        classes[E][k] = ClassAgainst(dl[E].content.history, batch[E][k])

\* a price text that is missing or that float() cannot parse
NoParsablePrice(price_text) ==
  \/ price_text = <<>>
  \/ FloatTenths(CleanPriceText(price_text)) = Absent

\* C10: a record whose price text is missing or unparsable is classified
\* unchanged when the cache has an entry for its id and new otherwise, never
\* changed.
C10_NoPriceNeverChanged ==
  lastOp = "filter" =>
     \A k \in 1..Len(batch[E]) :
        NoParsablePrice(batch[E][k].price_text) =>
           classes[E][k] = IF batch[E][k].unique_id \in DOMAIN duplicate_db[E]
                           THEN "unchanged" ELSE "new"

----------------------------------------------------------------------------
(* Headless runs (run_headless_scraper) that share the working directory   *)
(* and the remote repository; each has a GitHub configuration.  A step is  *)
(* one call of the run; the calls of different runs interleave.            *)

\* database_lock_{session_id}.lock.  cleanup_stale_locks, called inside both
\* protected operations, removes lock files older than 60 minutes: none is,
\* the clock stays below that age.
LockName(session_id) == session_id

\* documents the remote repository can hold when the runs start: none, a
\* validated one, one whose observations are as save_duplicate_database
\* writes them, one whose metadata is not an object
RemoteDocs ==
  { StoredDoc([i \in {"A"} |-> <<ValidatorEntry(0, Tenths(100))>>]),
    [history |-> [i \in {"A"} |-> <<ScraperEntry(0, Tenths(100))>>],
     metadata |-> EmptyMetadata],
    [history |-> EmptyHistory, metadata |-> [EmptyMetadata EXCEPT !.isDict = FALSE]] }

\* a backup left by an earlier session
OldBackup ==
  [name |-> BackupName(0, <<"s0">>),
   doc |-> StoredDoc([i \in {"B"} |-> <<ValidatorEntry(0, Tenths(99))>>])]

\* what the requests of one safe_download meet: failures of one kind, then
\* answers
AnswerPlan(n, a) ==
  [k \in 1..DOWNLOAD_RETRY_ATTEMPTS |-> IF k <= n THEN a ELSE "served"]

AnswerPlans ==
  { AnswerPlan(n, a) : n \in {0, 1, DOWNLOAD_RETRY_ATTEMPTS},
                       a \in {"refused", "timeout"} }

\* the inputs of one safe_download: the answers with a writable disk, and no
\* answer with a disk that takes no write
DownloadInputs ==
  {<<p, TRUE>> : p \in AnswerPlans}
    \cup {<<AnswerPlan(DOWNLOAD_RETRY_ATTEMPTS, "timeout"), FALSE>>}

\* how many upload_database calls of one atomic_upload fail
UploadFailures == {0, 1, UPLOAD_RETRY_ATTEMPTS}

\* the batch a run scrapes
RunBatches(now) ==
  { <<Car("A", <<"1", "0", "1">>, now), Car("B", <<>>, now)>> }

Init ==
  /\ clock = 0
  /\ remote \in {NoFile} \cup {FileOf(d) : d \in RemoteDocs}
  /\ localFile \in {NoFile, FileOf(StoredDoc([i \in {"A"} |-> <<ValidatorEntry(0, Tenths(100))>>]))}
  /\ backups \in {<<>>, <<OldBackup>>}
  /\ lockHolder = [s \in SessionIds |-> NoRun]
  /\ session \in {f \in [Runs -> SessionIds] : f["r1"] = "s1"}
  /\ pc = [r \in Runs |-> "start"]
  /\ batch = [r \in Runs |-> <<>>]
  /\ duplicate_db = [r \in Runs |-> EmptyDb]
  /\ classes = [r \in Runs |-> <<>>]
  /\ handle = [r \in Runs |-> FALSE]
  /\ dl = [r \in Runs |-> NoDl]
  /\ ul = [r \in Runs |-> NoUl]
  /\ lastOp = "none"
  /\ supabase = EmptySupabase
  /\ lockDir = NoLockDir
  /\ lock_file = [r \in Runs |-> NoLockFile]
  /\ call = NoCall

\* time passes before the runs start (the clock is coarse: the runs overlap
\* within one tick)
Tick ==
  /\ clock < MaxClock
  /\ \A r \in Runs : pc[r] = "start"
  /\ clock' = clock + 1
  /\ UNCHANGED <<remote, localFile, backups, lockHolder, session, pc, batch,
                 duplicate_db, classes, handle, dl, ul, lastOp, supabase, lockDir, lock_file, call>>

\* Step 1, engine.scrape_all_cars(search_config) with cars found: the engine
\* saves the enriched batch to the ledger before it returns
RunScrape(r, cars) ==
  /\ pc[r] = "start"
  /\ HistoryRoom(localFile)
  /\ LET s == save_duplicate_database(localFile, cars, clock)
     IN /\ localFile' = s.file
        /\ duplicate_db' = [duplicate_db EXCEPT ![r] = s.db]
  /\ batch' = [batch EXCEPT ![r] = cars]
  /\ pc' = [pc EXCEPT ![r] = "download"]
  /\ UNCHANGED <<clock, remote, backups, lockHolder, session, classes, handle,
                 dl, ul, lastOp, supabase, lockDir, lock_file, call>>

\* Step 1 with no car found: the run returns False
RunNoCars(r) ==
  /\ pc[r] = "start"
  /\ pc' = [pc EXCEPT ![r] = "no_cars"]
  /\ UNCHANGED <<clock, remote, localFile, backups, lockHolder, session, batch,
                 duplicate_db, classes, handle, dl, ul, lastOp, supabase, lockDir, lock_file, call>>

\* acquire_database_lock(session_id) gets the flock
Acquire(r, from, to) ==
  /\ pc[r] = from
  /\ lockHolder[LockName(session[r])] = NoRun
  /\ lockHolder' = [lockHolder EXCEPT ![LockName(session[r])] = r]
  /\ handle' = [handle EXCEPT ![r] = TRUE]
  /\ pc' = [pc EXCEPT ![r] = to]
  /\ UNCHANGED <<clock, remote, localFile, backups, session, batch,
                 duplicate_db, classes, dl, ul, lastOp, supabase, lockDir, lock_file, call>>

\* acquire_database_lock(session_id) polls a lock another run holds until the
\* timeout and returns None; the caller goes on
AcquireTimeout(r, from, to) ==
  /\ pc[r] = from
  /\ lockHolder[LockName(session[r])] \notin {NoRun, r}
  /\ handle' = [handle EXCEPT ![r] = FALSE]
  /\ pc' = [pc EXCEPT ![r] = to]
  /\ UNCHANGED <<clock, remote, localFile, backups, lockHolder, session, batch,
                 duplicate_db, classes, dl, ul, lastOp, supabase, lockDir, lock_file, call>>

DlAcquire(r) == Acquire(r, "download", "dl_body")
DlTimeout(r) == AcquireTimeout(r, "download", "dl_body")
UlAcquire(r) == Acquire(r, "upload", "ul_body")
UlTimeout(r) == AcquireTimeout(r, "upload", "ul_body")

\* a protected operation that returns without its finally clause
Kept(r) == lockHolder

\* release_database_lock(lock_handle) in the finally clause, when there is a
\* handle
Released(r) ==
  IF handle[r] THEN [lockHolder EXCEPT ![LockName(session[r])] = NoRun]
  ELSE lockHolder

\* Step 2, the body of safe_download_database(session_id) after the lock
\* call: safe_download, then the release
DlReturn(r, d, diskOk) ==
  /\ localFile' = d.file
  /\ backups' = d.dir
  /\ dl' = [dl EXCEPT ![r] = [success |-> d.success, content |-> d.content,
                              source |-> d.source, answers |-> d.statuses,
                              diskOk |-> diskOk]]

DlBody(r, answers, diskOk) ==
  /\ pc[r] = "dl_body"
  /\ DlReturn(r, safe_download(remote, answers, localFile, backups, session[r],
                               clock, diskOk), diskOk)
  /\ lockHolder' = Released(r)
  /\ pc' = [pc EXCEPT ![r] = "dl_done"]
  /\ UNCHANGED <<clock, remote, session, batch, duplicate_db, classes, handle,
                 ul, lastOp, supabase, lockDir, lock_file, call>>

\* the run after the download: load the cache from the validated content (or,
\* when the download failed, from the working copy), abort when a loaded
\* cache has fewer than 100 cars, else Step 3, filter_duplicates
RunClassify(r) ==
  /\ pc[r] = "dl_done"
  /\ LET database_loaded == dl[r].success
         l == LoadFromFile(localFile, clock)
         db == DuplicateDbAfterLoad(IF database_loaded THEN dl[r].content ELSE l.data)
         abort == database_loaded /\ Cardinality(DOMAIN db) < SAFETY_MIN_CARS
     IN /\ duplicate_db' = [duplicate_db EXCEPT ![r] = db]
        /\ localFile' = IF database_loaded THEN localFile ELSE l.file
        /\ classes' = [classes EXCEPT ![r] =
                         IF abort THEN <<>> ELSE filter_duplicates(db, batch[r])]
        /\ pc' = [pc EXCEPT ![r] = IF abort THEN "aborted" ELSE "save"]
  /\ UNCHANGED <<clock, remote, backups, lockHolder, session, batch, handle,
                 dl, ul, lastOp, supabase, lockDir, lock_file, call>>

\* Step 4, engine.save_duplicate_database(all_scraped_cars)
RunSave(r) ==
  /\ pc[r] = "save"
  /\ HistoryRoom(localFile)
  /\ LET s == save_duplicate_database(localFile, batch[r], clock)
     IN /\ localFile' = s.file
        /\ duplicate_db' = [duplicate_db EXCEPT ![r] = s.db]
  /\ pc' = [pc EXCEPT ![r] = "upload"]
  /\ UNCHANGED <<clock, remote, backups, lockHolder, session, batch, classes,
                 handle, dl, ul, lastOp, supabase, lockDir, lock_file, call>>

\* Step 5, the body of safe_upload_database(session_id) after the lock call:
\* the content is read from the working copy, atomic_upload, then the release
UlReturn(r, u, failures, disk) ==
  /\ ul' = [ul EXCEPT ![r] = [success |-> u.success, attempts |-> u.attempts,
                              failures |-> failures, disk |-> disk]]
  /\ remote' = u.rem
  /\ localFile' = u.file
  /\ backups' = u.dir

UlBody(r, failures) ==
  /\ pc[r] = "ul_body"
  /\ IF ~localFile.exists
     THEN /\ ul' = [ul EXCEPT ![r] = NoUl]
          /\ UNCHANGED <<remote, localFile, backups>>
     ELSE UlReturn(r, atomic_upload(localFile.doc, localFile, backups, remote,
                                   session[r], clock, failures), failures, "ok")
  /\ lockHolder' = Released(r)
  /\ pc' = [pc EXCEPT ![r] = "done"]
  /\ UNCHANGED <<clock, session, batch, duplicate_db, classes, handle, dl, lastOp,
                 supabase, lockDir, lock_file, call>>

Next ==
  \/ Tick
  \/ \E r \in Runs :
       \/ \E cars \in RunBatches(clock) : RunScrape(r, cars)
       \/ RunNoCars(r)
       \/ DlAcquire(r)
       \/ DlTimeout(r)
       \/ \E i \in DownloadInputs : DlBody(r, i[1], i[2])
       \/ RunClassify(r)
       \/ RunSave(r)
       \/ UlAcquire(r)
       \/ UlTimeout(r)
       \/ \E failures \in UploadFailures : UlBody(r, failures)

Spec == Init /\ [][Next]_vars

----------------------------------------------------------------------------
(* Properties of the headless runs (Spec) *)

\* a run is inside a protected database operation, holding the lock handle
\* its acquire returned
InsideProtected(r) == pc[r] \in {"dl_body", "ul_body"} /\ handle[r]

\* C2: at any moment at most one run is inside a protected database
\* operation, the region between acquire_database_lock and the release.
C2_MutualExclusion ==
  \A r1, r2 \in Runs : r1 # r2 => ~(InsideProtected(r1) /\ InsideProtected(r2))

HoldsLock(r) == lockHolder[LockName(session[r])] = r

\* C3: a run holds the database lock in every state between the end of its
\* safe_download_database and the start of its safe_upload_database, so that
\* the lock covers the whole download, classify, save, upload span.
C3_LockHeldAcrossRun ==
  \A r \in Runs : pc[r] \in {"save", "upload"} => HoldsLock(r)

\* the observation save_duplicate_database appends for a scraped car is in a
\* document's history
Recorded(doc, car) ==
  /\ car.unique_id \in DOMAIN doc.history
  /\ \E k \in 1..Len(doc.history[car.unique_id]) :
        /\ doc.history[car.unique_id][k].price = car.price_numeric
        /\ doc.history[car.unique_id][k].date = car.scrape_date

\* C4: when both runs have completed their upload, the remote document holds
\* the observations appended by both runs.
C4_NoLostUpdate ==
  (\A r \in Runs : pc[r] = "done" /\ ul[r].success) =>
     \A r \in Runs : \A k \in 1..Len(batch[r]) : Recorded(remote.doc, batch[r][k])

\* C5: when acquire_database_lock returned None, the enclosing
\* safe_download_database / safe_upload_database reports failure and has made
\* no remote call.
C5_TimeoutTouchesNothing ==
  \A r \in Runs :
     /\ (pc[r] = "dl_done" /\ ~handle[r]) =>
           (~dl[r].success /\ dl[r].answers = <<>>)
     /\ (pc[r] = "done" /\ ~handle[r]) =>
           (~ul[r].success /\ ul[r].attempts = 0)

\* a document every observation of which the validator accepts
IsValidDoc(d) ==
  /\ d.metadata.isDict
  /\ \A i \in DOMAIN d.history :
        \A k \in 1..Len(d.history[i]) : validate_price_entry(d.history[i][k])

\* run r's safe_download_database returns in this step after all its
\* DOWNLOAD_RETRY_ATTEMPTS remote attempts failed, on a writable disk, with
\* a valid newest backup in the directory
BackupFallbackStep(r) ==
  /\ pc[r] = "dl_body" /\ pc'[r] = "dl_done"
  /\ dl'[r].diskOk
  /\ Len(dl'[r].answers) = DOWNLOAD_RETRY_ATTEMPTS
  /\ \A k \in 1..DOWNLOAD_RETRY_ATTEMPTS : dl'[r].answers[k] \in {"401", "none"}
  /\ backups # <<>>
  /\ IsValidDoc(backups[Len(backups)].doc)

\* C6: when all remote attempts fail and a valid backup B exists,
\* safe_download returns success, the returned content equals B's content,
\* the working copy is overwritten with it, and the provenance names the
\* local-backup stage with B's file name.
C6_BackupFallback ==
  [][\A r \in Runs : BackupFallbackStep(r) =>
        /\ dl'[r].success
        /\ dl'[r].content = backups[Len(backups)].doc
        /\ localFile' = FileOf(dl'[r].content)
        /\ dl'[r].source[Len(dl'[r].source)] =
              Stage("Local backup", backups[Len(backups)].name)]_vars

\* what does hold of the backup stage: B's history is returned and written to
\* the working copy, its metadata restamped by the validation
BackupHistoryRestored ==
  [][\A r \in Runs : BackupFallbackStep(r) =>
        /\ dl'[r].success
        /\ dl'[r].content.history = backups[Len(backups)].doc.history
        /\ dl'[r].content.metadata =
              [backups[Len(backups)].doc.metadata EXCEPT !.last_validated = clock]
        /\ localFile' = FileOf(dl'[r].content)
        /\ dl'[r].source = Append(GitHubFailed,
                                  Stage("Local backup", backups[Len(backups)].name))]_vars

\* C7: a remote attempt that meets an authentication failure (401) or a
\* not-found answer (404) is the last remote attempt of the call, and the
\* remote stage is recorded as failed: the chain goes to the local-backup
\* stage without a retry.
C7_PermanentNotRetried ==
  \A r \in Runs : pc[r] = "dl_done" =>
     \A k \in 1..Len(dl[r].answers) :
        dl[r].answers[k] \in {"401", "404"} =>
           /\ k = Len(dl[r].answers)
           /\ dl[r].source[1].stage = "GitHub download failed"

\* run r's download ended in the emergency empty database
EndedInEmergency(r) ==
  /\ dl[r].success
  /\ dl[r].source # <<>>
  /\ dl[r].source[Len(dl[r].source)].stage = "Emergency empty database"

\* C8: a run whose download ended in the emergency empty database continues:
\* it classifies every scraped record new and goes on to save and upload.
C8_EmergencyRunContinues ==
  \A r \in Runs : (EndedInEmergency(r) /\ pc[r] # "dl_done") =>
     /\ pc[r] \in {"save", "upload", "ul_body", "done"}
     /\ \A k \in 1..Len(batch[r]) : classes[r][k] = "new"

----------------------------------------------------------------------------
(* One headless run of the end-to-end scenario: the database {B: 100,      *)
(* C: 100} is in the remote repository, in a backup or in the working      *)
(* copy, and the run scrapes A, B at 100.5 and C at 105                    *)

ScenarioHistory == [i \in {"B", "C"} |-> <<ValidatorEntry(0, Tenths(100))>>]
ScenarioDoc == StoredDoc(ScenarioHistory)

ScenarioBatch(now) ==
  << Car("A", <<"1", "0", "1">>, now),
     Car("B", <<"1", "0", "0", ",", "5">>, now),
     Car("C", <<"1", "0", "5">>, now) >>

InitScenario ==
  /\ clock = 0
  /\ remote \in {NoFile, FileOf(ScenarioDoc)}
  /\ localFile \in {NoFile, FileOf(ScenarioDoc)}
  /\ backups \in {<<>>, <<[name |-> BackupName(0, <<"s0">>), doc |-> ScenarioDoc]>>}
  /\ lockHolder = [s \in SessionIds |-> NoRun]
  /\ session = [r \in Runs |-> "s1"]
  /\ pc = [r \in Runs |-> "start"]
  /\ batch = [r \in Runs |-> <<>>]
  /\ duplicate_db = [r \in Runs |-> EmptyDb]
  /\ classes = [r \in Runs |-> <<>>]
  /\ handle = [r \in Runs |-> FALSE]
  /\ dl = [r \in Runs |-> NoDl]
  /\ ul = [r \in Runs |-> NoUl]
  /\ lastOp = "none"
  /\ supabase = EmptySupabase
  /\ lockDir = NoLockDir
  /\ lock_file = [r \in Runs |-> NoLockFile]
  /\ call = NoCall

NextScenario ==
  \/ Tick
  \/ RunScrape(E, ScenarioBatch(clock))
  \/ DlAcquire(E)
  \/ \E i \in DownloadInputs : DlBody(E, i[1], i[2])
  \/ RunClassify(E)
  \/ RunSave(E)
  \/ UlAcquire(E)
  \/ \E failures \in UploadFailures : UlBody(E, failures)

SpecScenario == InitScenario /\ [][NextScenario]_vars

\* C11: a run that scrapes [A, B at 100.5, C at 105] and whose download
\* supplied the database {B: 100, C: 100} classifies A new, B unchanged and
\* C changed, and after its save the ledger has one observation more for
\* each of A, B and C and one id more (A).
C11_EndToEnd ==
  (dl[E].success /\ dl[E].content.history = ScenarioHistory /\ pc[E] # "dl_done") =>
     /\ pc[E] \in {"save", "upload", "ul_body", "done"}
     /\ classes[E] = <<"new", "unchanged", "changed">>
     /\ pc[E] \in {"upload", "ul_body", "done"} =>
          /\ localFile.exists
          /\ DOMAIN localFile.doc.history = {"A", "B", "C"}
          /\ Len(localFile.doc.history["A"]) = 1
          /\ Len(localFile.doc.history["B"]) = 2
          /\ Len(localFile.doc.history["C"]) = 2
          /\ \A k \in 1..3 : Recorded(localFile.doc, batch[E][k])

----------------------------------------------------------------------------
(* The latest-state cache of the file engine (SpecEngine) *)

NonEmptyIds(h) == {i \in DOMAIN h : h[i] # <<>>}

\* the cache holds exactly the ids of h that have observations, each with the
\* price and date of the observation appended last
CacheMirrors(db, h) ==
  /\ DOMAIN db = NonEmptyIds(h)
  /\ \A i \in DOMAIN db : db[i] = LatestState(h)[i]

\* C18: after load_duplicate_database or save_duplicate_database the cache
\* duplicate_db has an entry for exactly the ids whose ledger history is not
\* empty, and the entry's last_price and last_seen are those of the most
\* recently appended observation.
C18_LatestStateCache ==
  /\ lastOp = "load" => CacheMirrors(duplicate_db[E], dl[E].content.history)
  /\ lastOp = "save" =>
       CacheMirrors(duplicate_db[E],
                    IF localFile.exists THEN localFile.doc.history ELSE EmptyHistory)

----------------------------------------------------------------------------
(* The protected upload when every attempt fails (Spec) *)

AllAttemptsFailed(u) == ~u.success /\ u.attempts = UPLOAD_RETRY_ATTEMPTS

HasBackupNamed(dir, name) == \E k \in 1..Len(dir) : dir[k].name = name

\* C17: when all UPLOAD_RETRY_ATTEMPTS upload attempts of a protected upload
\* fail, the upload returns false, the working copy holds the validated
\* content that was to be uploaded, the pre-upload backup exists, the remote
\* document is untouched and the run goes on to its end.
C17_UploadFailureKeepsLocal ==
  [][\A r \in Runs :
       (pc[r] = "ul_body" /\ pc'[r] # "ul_body" /\ AllAttemptsFailed(ul'[r])) =>
          /\ ~ul'[r].success
          /\ localFile'.exists
          /\ localFile'.doc.history = validate_database(localFile.doc, clock).corrected.history
          /\ validate_database(localFile'.doc, clock).is_valid
          /\ HasBackupNamed(backups', BackupName(clock, <<session[r]>>))
          /\ remote' = remote
          /\ pc'[r] = "done"]_vars

\* a run that ended after UPLOAD_RETRY_ATTEMPTS failed attempts, its working
\* copy holding a ledger with observations
C17_Witness ==
  \E r \in Runs :
     /\ pc[r] = "done"
     /\ AllAttemptsFailed(ul[r])
     /\ localFile.exists
     /\ NumObs(localFile.doc.history) > 0
     /\ HasBackupNamed(backups, BackupName(clock, <<session[r]>>))

----------------------------------------------------------------------------
(* SupabaseSync and OLXScrapingEngineSupabase.  The cars table is a        *)
(* function from unique_id to the row's price, scraped_at and first_seen;  *)
(* price_history is the sequence of its rows in insertion order.  Prices   *)
(* are in tenths, a NULL column is Absent.                                 *)

\* float(car.price_numeric) if car.price_numeric else None
SupabasePrice(car) == IF car.price_numeric # 0 THEN car.price_numeric ELSE Absent

\* float(car['price']) if car['price'] else 999999
PriceOrNone(price) == IF price # Absent /\ price # 0 THEN price ELSE NO_PRICE

\* SupabaseSync.load_duplicate_database(): the cars table as a cache
supabase_load_duplicate_database(sb) ==
  [i \in DOMAIN sb.cars |->
     [last_price |-> PriceOrNone(sb.cars[i].price),
      last_seen |-> sb.cars[i].scraped_at,
      first_seen |-> IF sb.cars[i].first_seen # Absent THEN sb.cars[i].first_seen
                     ELSE sb.cars[i].scraped_at]]

\* old_price and new_price and abs(old_price - new_price) >= 1
PriceMoved(old_price, new_price) ==
  /\ old_price # Absent /\ old_price # 0
  /\ new_price # Absent
  /\ Abs(old_price - new_price) >= Tenths(1)

BatchIds(cars) == {cars[k].unique_id : k \in 1..Len(cars)}

CarOf(cars, id) == cars[CHOOSE k \in 1..Len(cars) : cars[k].unique_id = id]

\* the row the upsert leaves for a car: a new car's row with first_seen, an
\* existing row with the columns of car_dict replaced (first_seen is not one)
UpsertedRow(tbl, car) ==
  IF car.unique_id \in DOMAIN tbl
  THEN [tbl[car.unique_id] EXCEPT !.price = SupabasePrice(car),
                                  !.scraped_at = car.scrape_date]
  ELSE [price |-> SupabasePrice(car), scraped_at |-> car.scrape_date,
        first_seen |-> car.scrape_date]

Upserted(tbl, cars) ==
  [i \in DOMAIN tbl \cup BatchIds(cars) |->
     IF i \in BatchIds(cars) THEN UpsertedRow(tbl, CarOf(cars, i)) ELSE tbl[i]]

PriceUpdate(car) ==
  [car_unique_id |-> car.unique_id, price |-> SupabasePrice(car),
   recorded_at |-> car.scrape_date]

RECURSIVE price_updates(_, _)
price_updates(tbl, cars) ==
  IF cars = <<>> THEN <<>>
  ELSE IF /\ cars[1].unique_id \in DOMAIN tbl
          /\ PriceMoved(tbl[cars[1].unique_id].price, SupabasePrice(cars[1]))
  THEN <<PriceUpdate(cars[1])>> \o price_updates(tbl, Tail(cars))
  ELSE price_updates(tbl, Tail(cars))

\* _save_batch(batch): one upsert of all rows, then the price_history insert;
\* an upsert naming one unique_id twice is rejected by the database and the
\* batch fails with nothing written
save_batch(sb, cars) ==
  IF Cardinality(BatchIds(cars)) # Len(cars)
  THEN [success |-> FALSE, sb |-> sb]
  ELSE [success |-> TRUE,
        sb |-> [cars |-> Upserted(sb.cars, cars),
                price_history |-> sb.price_history \o price_updates(sb.cars, cars)]]

\* save_cars_data(cars_list); the model's batches stay below BATCH_SIZE and
\* MAX_NEW_CARS_PER_RUN, so there is one batch
save_cars_data(sb, cars) ==
  IF cars = <<>> THEN [success |-> TRUE, sb |-> sb] ELSE save_batch(sb, cars)

RECURSIVE CacheUpdated(_, _)
CacheUpdated(db, cars) ==
  IF cars = <<>> THEN db
  ELSE CacheUpdated(
         [i \in DOMAIN db \cup {cars[1].unique_id} |->
            IF i = cars[1].unique_id
            THEN [last_price |-> cars[1].price_numeric,
                  last_seen |-> cars[1].scrape_date,
                  first_seen |-> cars[1].scrape_date]
            ELSE db[i]],
         Tail(cars))

supabase_saved(db, saved, new_cars) ==
  [db |-> IF saved.success THEN CacheUpdated(db, new_cars) ELSE db, sb |-> saved.sb]

\* OLXScrapingEngineSupabase.save_duplicate_database(new_cars)
supabase_save_duplicate_database(db, sb, new_cars) ==
  IF new_cars = <<>> THEN [db |-> db, sb |-> sb]
  ELSE supabase_saved(db, save_cars_data(sb, new_cars), new_cars)

\* the records filter_duplicates returns: the new and the changed ones
RECURSIVE Filtered(_, _)
Filtered(cars, cls) ==
  IF cars = <<>> THEN <<>>
  ELSE IF cls[1] # "unchanged" THEN <<cars[1]>> \o Filtered(Tail(cars), Tail(cls))
  ELSE Filtered(Tail(cars), Tail(cls))

\* the ledger download_database builds: per car one entry from its cars row
\* and one per price_history row
SupabaseObs(sb, id) ==
  IF id \notin DOMAIN sb.cars THEN 0
  ELSE 1 + Len(SelectSeq(sb.price_history, LAMBDA u : u.car_unique_id = id))

----------------------------------------------------------------------------
(* The Supabase engine's calls, in the order run_scraper_with_supabase     *)
(* makes them and directly                                                 *)

SupabaseRow(p, d) == [price |-> p, scraped_at |-> d, first_seen |-> d]

SupabaseTables ==
  { EmptyTable,
    [i \in {"A"} |-> SupabaseRow(Tenths(100), 0)],
    [i \in {"A", "B"} |-> IF i = "A" THEN SupabaseRow(Tenths(101), 0)
                          ELSE SupabaseRow(NO_PRICE, 0)],
    [i \in {"A"} |-> SupabaseRow(Absent, 0)] }

SupabaseFrame ==
  UNCHANGED <<remote, localFile, backups, lockHolder, session, handle, dl, ul,
              lockDir, lock_file>>

InitSupabase ==
  /\ clock = 0
  /\ remote = NoFile
  /\ localFile = NoFile
  /\ backups = <<>>
  /\ lockHolder = [s \in SessionIds |-> NoRun]
  /\ session = [r \in Runs |-> "s1"]
  /\ pc = [r \in Runs |-> "api"]
  /\ batch = [r \in Runs |-> <<>>]
  /\ duplicate_db = [r \in Runs |-> EmptyDb]
  /\ classes = [r \in Runs |-> <<>>]
  /\ handle = [r \in Runs |-> FALSE]
  /\ dl = [r \in Runs |-> NoDl]
  /\ ul = [r \in Runs |-> NoUl]
  /\ lastOp = "none"
  /\ supabase \in {[cars |-> t, price_history |-> <<>>] : t \in SupabaseTables}
  /\ lockDir = NoLockDir
  /\ lock_file = [r \in Runs |-> NoLockFile]
  /\ call = NoCall

SbTick ==
  /\ clock < MaxClock
  /\ batch[E] = <<>>
  /\ clock' = clock + 1
  /\ call' = NoCall
  /\ UNCHANGED <<pc, batch, duplicate_db, classes, lastOp, supabase, lockDir, lock_file>>
  /\ SupabaseFrame

\* all_cars.extend(cars), after the run's load
SbScrape(car) ==
  /\ pc[E] = "loaded"
  /\ Len(batch[E]) < MaxBatch
  /\ batch' = [batch EXCEPT ![E] = Append(@, car)]
  /\ classes' = [classes EXCEPT ![E] = <<>>]
  /\ lastOp' = "scrape"
  /\ call' = [fn |-> "scrape"]
  /\ UNCHANGED <<clock, pc, duplicate_db, supabase, lockDir, lock_file>>
  /\ SupabaseFrame

\* engine.load_duplicate_database(), step 2 of the run
SbLoad ==
  /\ batch[E] = <<>>
  /\ duplicate_db' = [duplicate_db EXCEPT ![E] = supabase_load_duplicate_database(supabase)]
  /\ classes' = [classes EXCEPT ![E] = <<>>]
  /\ pc' = [pc EXCEPT ![E] = "loaded"]
  /\ lastOp' = "load"
  /\ call' = [fn |-> "load"]
  /\ UNCHANGED <<clock, batch, supabase, lockDir, lock_file>>
  /\ SupabaseFrame

\* filtered_cars = engine.filter_duplicates(all_cars)
SbFilter ==
  /\ batch[E] # <<>>
  /\ classes' = [classes EXCEPT ![E] = filter_duplicates(duplicate_db[E], batch[E])]
  /\ lastOp' = "filter"
  /\ call' = [fn |-> "filter"]
  /\ UNCHANGED <<clock, pc, batch, duplicate_db, supabase, lockDir, lock_file>>
  /\ SupabaseFrame

SbSaved(s, fn, returned) ==
  /\ duplicate_db' = [duplicate_db EXCEPT ![E] = s.db]
  /\ supabase' = s.sb
  /\ call' = [fn |-> fn, returned |-> returned]

\* engine.save_duplicate_database(filtered_cars), and the run returns
\* filtered_cars
SbSaveFiltered ==
  /\ batch[E] # <<>>
  /\ Len(classes[E]) = Len(batch[E])
  /\ Len(supabase.price_history) + Len(batch[E]) <= MaxBatch
  /\ SbSaved(supabase_save_duplicate_database(duplicate_db[E], supabase,
                                              Filtered(batch[E], classes[E])),
             "run", Filtered(batch[E], classes[E]))
  /\ batch' = [batch EXCEPT ![E] = <<>>]
  /\ classes' = [classes EXCEPT ![E] = <<>>]
  /\ lastOp' = "save"
  /\ UNCHANGED <<clock, pc>>
  /\ SupabaseFrame

\* engine.save_duplicate_database(new_cars) called with a whole batch
SbSaveAll ==
  /\ batch[E] # <<>>
  /\ Len(supabase.price_history) + Len(batch[E]) <= MaxBatch
  /\ SbSaved(supabase_save_duplicate_database(duplicate_db[E], supabase, batch[E]),
             "save", batch[E])
  /\ batch' = [batch EXCEPT ![E] = <<>>]
  /\ classes' = [classes EXCEPT ![E] = <<>>]
  /\ lastOp' = "save"
  /\ UNCHANGED <<clock, pc>>
  /\ SupabaseFrame

NextSupabase ==
  \/ SbTick
  \/ \E car \in CarsAt(clock) : SbScrape(car)
  \/ SbLoad
  \/ SbFilter
  \/ SbSaveFiltered
  \/ SbSaveAll

SpecSupabase == InitSupabase /\ [][NextSupabase]_vars

Occurrences(cars, id) == Len(SelectSeq(cars, LAMBDA car : car.unique_id = id))

\* C12: in a run, every scraped record of the batch - new, changed or
\* unchanged - has one observation appended to the persisted ledger by the
\* save, and exactly the new and changed records are returned.
C12_EveryRecordAppended ==
  [][(lastOp' = "save" /\ call'.fn = "run") =>
       /\ \A id \in BatchIds(batch[E]) :
            SupabaseObs(supabase', id) = SupabaseObs(supabase, id) + Occurrences(batch[E], id)
       /\ call'.returned = Filtered(batch[E], classes[E])]_vars

\* C19: no save replaces a first_seen value already recorded for an id, in
\* the engine's cache or in the cars table.
C19_FirstSeenWriteOnce ==
  [][lastOp' = "save" =>
       /\ \A id \in DOMAIN duplicate_db[E] :
            /\ id \in DOMAIN duplicate_db'[E]
            /\ duplicate_db'[E][id].first_seen = duplicate_db[E][id].first_seen
       /\ \A id \in DOMAIN supabase.cars :
            /\ id \in DOMAIN supabase'.cars
            /\ supabase'.cars[id].first_seen = supabase.cars[id].first_seen]_vars

\* the cars table alone keeps first_seen (supporting property; it holds)
CarsTableFirstSeenKept ==
  [][\A id \in DOMAIN supabase.cars :
       /\ id \in DOMAIN supabase'.cars
       /\ supabase'.cars[id].first_seen = supabase.cars[id].first_seen]_vars

----------------------------------------------------------------------------
(* DatabaseValidator.validate_database called directly, on inputs of any   *)
(* shape.  An input records its own type, the types of its history and     *)
(* metadata values ("missing" when the key is absent) and, when the        *)
(* history is a dictionary, the history.                                   *)

InputTypes == {"dict", "list"}
FieldTypes == {"missing", "dict", "list"}

Input(t, ht, mt) == [type |-> t, history_type |-> ht, metadata_type |-> mt,
                     history |-> EmptyHistory]

\* the document an input of type dict is: a missing key reads as {}
DocOf(x) ==
  [history |-> IF x.history_type = "dict" THEN x.history ELSE EmptyHistory,
   metadata |-> IF x.metadata_type = "list"
                THEN [EmptyMetadata EXCEPT !.isDict = FALSE] ELSE EmptyMetadata]

\* return False, <message>, None
ValidationFailed(x) ==
  [is_valid |-> FALSE, has_corrected |-> FALSE, corrected |-> EmptyDoc,
   input |-> DocOf(x)]

\* validate_database(db_content) for an input of any shape
validate_input(x, now) ==
  IF x.type # "dict" THEN ValidationFailed(x)
  ELSE IF x.history_type = "list" THEN ValidationFailed(x)
  ELSE validate_database(DocOf(x), now)

\* an observation in the persisted format without its price key
ScraperEntryNoPrice(d) ==
  [ScraperEntry(d, Absent) EXCEPT !.fields = ScraperFields \ {"price"}]

Observations(now) ==
  { ScraperEntry(now, Tenths(100)), ScraperEntryNoPrice(now),
    ValidatorEntry(now, Tenths(100)) }

ValidatorFrame ==
  UNCHANGED <<clock, remote, localFile, backups, lockHolder, session, pc, batch,
              duplicate_db, classes, handle, dl, ul, lastOp, supabase, lockDir, lock_file>>

InitValidator ==
  /\ clock = 0
  /\ remote = NoFile
  /\ localFile = NoFile
  /\ backups = <<>>
  /\ lockHolder = [s \in SessionIds |-> NoRun]
  /\ session = [r \in Runs |-> "s1"]
  /\ pc = [r \in Runs |-> "api"]
  /\ batch = [r \in Runs |-> <<>>]
  /\ duplicate_db = [r \in Runs |-> EmptyDb]
  /\ classes = [r \in Runs |-> <<>>]
  /\ handle = [r \in Runs |-> FALSE]
  /\ dl = [r \in Runs |-> NoDl]
  /\ ul = [r \in Runs |-> NoUl]
  /\ lastOp = "none"
  /\ supabase = EmptySupabase
  /\ lockDir = NoLockDir
  /\ lock_file = [r \in Runs |-> NoLockFile]
  /\ call = NoCall

\* the caller takes an input of some shape
ValInput(t, ht, mt) ==
  /\ call.fn = "none"
  /\ t = "list" => (ht = "missing" /\ mt = "missing")
  /\ call' = [fn |-> "input", x |-> Input(t, ht, mt)]
  /\ ValidatorFrame

\* the input's ledger gets one more observation of car A
ValAppend(e) ==
  /\ call.fn = "input"
  /\ call.x.type = "dict" /\ call.x.history_type = "dict"
  /\ NumObs(call.x.history) < MaxObs
  /\ call' = [call EXCEPT !.x.history =
                 [i \in {"A"} |-> IF "A" \in DOMAIN @ THEN Append(@["A"], e) ELSE <<e>>]]
  /\ ValidatorFrame

\* validator.validate_database(input)
ValValidate ==
  /\ call.fn = "input"
  /\ call' = [fn |-> "validate_database", x |-> call.x,
              result |-> validate_input(call.x, clock)]
  /\ ValidatorFrame

\* the corrected result goes through validate_database again, as the
\* verification of the written content in atomic_upload does
ValRevalidate ==
  /\ call.fn = "validate_database"
  /\ call.result.has_corrected
  /\ call' = [fn |-> "revalidate", x |-> call.x, corrected |-> call.result.corrected,
              result |-> validate_database(call.result.corrected, clock)]
  /\ ValidatorFrame

NextValidator ==
  \/ \E t \in InputTypes, ht \in FieldTypes, mt \in FieldTypes : ValInput(t, ht, mt)
  \/ \E e \in Observations(clock) : ValAppend(e)
  \/ ValValidate
  \/ ValRevalidate

SpecValidator == InitValidator /\ [][NextValidator]_vars

PersistedFormat(e) == e.fields \subseteq ScraperFields
PersistedWellFormed(e) == e.fields = ScraperFields /\ e.price >= 0

AllObs(h) == IF "A" \in DOMAIN h THEN h["A"] ELSE <<>>

\* C13: for a ledger in the persisted format with 5 well-formed observations
\* and 2 malformed ones, validate_database returns a corrected database
\* holding exactly the 5 well-formed observations, with
\* corrupted_entries_removed = 2.
C13_ValidatorCorrection ==
  (/\ call.fn = "validate_database"
   /\ call.x.type = "dict" /\ call.x.history_type = "dict" /\ call.x.metadata_type = "dict"
   /\ \A k \in 1..Len(AllObs(call.x.history)) : PersistedFormat(AllObs(call.x.history)[k])
   /\ Len(SelectSeq(AllObs(call.x.history), PersistedWellFormed)) = 5
   /\ Len(AllObs(call.x.history)) = 7)
  => /\ call.result.has_corrected
     /\ AllObs(call.result.corrected.history)
          = SelectSeq(AllObs(call.x.history), PersistedWellFormed)
     /\ call.result.corrected.metadata.validation_stats[3] = 2

\* C14: validate_database returns no corrected database only when its input
\* is not a dictionary: every dictionary input, whatever the types of its
\* history and metadata values, gets a corrected database.
C14_OnlyNonDictFails ==
  (call.fn = "validate_database" /\ call.x.type = "dict") => call.result.has_corrected

----------------------------------------------------------------------------
(* DatabaseBackupManager.create_backup called directly.  The clock counts  *)
(* seconds, the resolution of the timestamp in a backup's name.            *)

\* the session tags of the callers: none, or a session id
SessionSuffixes == {<<>>, <<"s1">>}

BackupContents ==
  { StoredDoc([i \in {"A"} |-> <<ValidatorEntry(0, Tenths(100))>>]),
    StoredDoc([i \in {"A"} |-> <<ValidatorEntry(0, Tenths(101))>>]) }

\* the number of create_backup calls made so far, and the names they wrote
\* (the last MAX_DATABASE_BACKUPS of them, oldest first)
CallCount(c) == IF c.fn = "create_backup" THEN c.count ELSE 0
CallRecent(c) == IF c.fn = "create_backup" THEN c.recent ELSE <<>>

LastOf(names) ==
  IF Len(names) > MAX_DATABASE_BACKUPS
  THEN SubSeq(names, Len(names) - MAX_DATABASE_BACKUPS + 1, Len(names))
  ELSE names

BackupFrame ==
  UNCHANGED <<remote, localFile, lockHolder, session, pc, batch, duplicate_db,
              classes, handle, dl, ul, lastOp, supabase, lockDir, lock_file>>

InitBackup ==
  /\ clock = 0
  /\ remote = NoFile
  /\ localFile = NoFile
  /\ backups = <<>>
  /\ lockHolder = [s \in SessionIds |-> NoRun]
  /\ session = [r \in Runs |-> "s1"]
  /\ pc = [r \in Runs |-> "api"]
  /\ batch = [r \in Runs |-> <<>>]
  /\ duplicate_db = [r \in Runs |-> EmptyDb]
  /\ classes = [r \in Runs |-> <<>>]
  /\ handle = [r \in Runs |-> FALSE]
  /\ dl = [r \in Runs |-> NoDl]
  /\ ul = [r \in Runs |-> NoUl]
  /\ lastOp = "none"
  /\ supabase = EmptySupabase
  /\ lockDir = NoLockDir
  /\ lock_file = [r \in Runs |-> NoLockFile]
  /\ call = NoCall

\* a second passes
BkTick ==
  /\ clock < MaxSeconds
  /\ clock' = clock + 1
  /\ UNCHANGED <<backups, call>>
  /\ BackupFrame

\* backup_manager.create_backup(database_content, session_id)
BkCreate(database_content, suffix) ==
  /\ CallCount(call) < MAX_DATABASE_BACKUPS + 3
  /\ backups' = create_backup(backups, database_content, suffix, clock).dir
  /\ call' = [fn |-> "create_backup", count |-> CallCount(call) + 1,
              recent |-> LastOf(Append(CallRecent(call), BackupName(clock, suffix)))]
  /\ UNCHANGED clock
  /\ BackupFrame

NextBackup ==
  \/ BkTick
  \/ \E d \in BackupContents, suffix \in SessionSuffixes : BkCreate(d, suffix)

SpecBackup == InitBackup /\ [][NextBackup]_vars

BackupNames(dir) == {dir[k].name : k \in 1..Len(dir)}

\* C15: after MAX_DATABASE_BACKUPS + 3 successful create_backup calls, made
\* at any times and with any session tags, the backup directory holds
\* exactly MAX_DATABASE_BACKUPS backups, the most recently created ones.
C15_BackupRetention ==
  CallCount(call) = MAX_DATABASE_BACKUPS + 3 =>
     /\ Len(backups) = MAX_DATABASE_BACKUPS
     /\ BackupNames(backups) = {call.recent[k] : k \in 1..Len(call.recent)}

\* C20: a create_backup call changes the contents of no backup file written
\* before it, and a backup leaves the directory only when the call prunes.
C20_WriteOnceBackups ==
  [][\A k \in 1..Len(backups) :
       /\ \A j \in 1..Len(backups') :
            backups'[j].name = backups[k].name => backups'[j].doc = backups[k].doc
       /\ backups[k].name \notin BackupNames(backups') =>
            Len(backups') = MAX_DATABASE_BACKUPS]_vars

----------------------------------------------------------------------------
(* safe_upload_database called repeatedly by one session, nothing else     *)
(* writing the working copy in between: every call uploads the content of  *)
(* the working copy                                                        *)

\* a document whose metadata value is not a dictionary
UncorrectableDoc ==
  [history |-> EmptyHistory, metadata |-> [EmptyMetadata EXCEPT !.isDict = FALSE]]

DiskOutcomes == {"ok", "no_backup", "no_write"}

UploadFrame ==
  UNCHANGED <<lockHolder, session, pc, batch, duplicate_db, classes, handle, dl,
              supabase, lockDir, lock_file, call>>

InitUpload ==
  /\ clock = 0
  /\ remote = NoFile
  /\ localFile \in {FileOf(d) : d \in BackupContents \cup {UncorrectableDoc}}
  /\ backups = <<>>
  /\ lockHolder = [s \in SessionIds |-> NoRun]
  /\ session = [r \in Runs |-> "s1"]
  /\ pc = [r \in Runs |-> "api"]
  /\ batch = [r \in Runs |-> <<>>]
  /\ duplicate_db = [r \in Runs |-> EmptyDb]
  /\ classes = [r \in Runs |-> <<>>]
  /\ handle = [r \in Runs |-> FALSE]
  /\ dl = [r \in Runs |-> NoDl]
  /\ ul = [r \in Runs |-> NoUl]
  /\ lastOp = "none"
  /\ supabase = EmptySupabase
  /\ lockDir = NoLockDir
  /\ lock_file = [r \in Runs |-> NoLockFile]
  /\ call = NoCall

UpTick ==
  /\ clock < MaxSeconds
  /\ clock' = clock + 1
  /\ lastOp' = "tick"
  /\ UNCHANGED <<remote, localFile, backups, ul>>
  /\ UploadFrame

\* github_db_sync.safe_upload_database(session_id): the lock is free, the
\* content is read from the working copy and handed to atomic_upload
UpUpload(failures, disk) ==
  /\ UlReturn(E, atomic_upload_on(disk, localFile.doc, localFile, backups, remote,
                                  session[E], clock, failures), failures, disk)
  /\ lastOp' = "upload"
  /\ UNCHANGED clock
  /\ UploadFrame

NextUpload ==
  \/ UpTick
  \/ \E failures \in UploadFailures, disk \in DiskOutcomes : UpUpload(failures, disk)

SpecUpload == InitUpload /\ [][NextUpload]_vars

\* C16: a protected upload of the content that the previous protected upload
\* stored leaves the stored remote document as that upload left it.
C16_UploadIdempotent ==
  [][(/\ lastOp' = "upload"
      /\ ul[E].success /\ ul'[E].success
      /\ remote.exists /\ localFile.doc = remote.doc)
     => remote' = remote]_vars

----------------------------------------------------------------------------
(* The fallback chain of safe_download, seen from outside: what one        *)
(* protected download found (remote, working copy, backups) and what it    *)
(* returned and left (Spec)                                                *)

DownloadStep(r) == pc[r] = "dl_body" /\ pc'[r] = "dl_done"

\* the stage a provenance element belongs to: 1 remote, 2 latest valid
\* backup, 3 existing local file, 4 emergency-empty
StageNumber(label) ==
  IF label \in {"GitHub download", "GitHub download corrected", "GitHub download failed"}
  THEN 1
  ELSE IF label \in {"Local backup", "Local backup failed"} THEN 2
  ELSE IF label = "Existing local file (corrected)" THEN 3
  ELSE 4

TerminalStage(d) == StageNumber(d.source[Len(d.source)].stage)

\* a remote attempt that gave nothing usable: no document and no 404, a disk
\* that takes no write, or a document that cannot be corrected
AttemptFailed(status, rem, diskOk, now) ==
  ~(/\ status \in {"200", "404"}
    /\ diskOk
    /\ status = "404" \/ validate_database(rem.doc, now).has_corrected)

RemoteFailed(d, rem, now) ==
  /\ Len(d.answers) = DOWNLOAD_RETRY_ATTEMPTS
  /\ \A k \in 1..Len(d.answers) : AttemptFailed(d.answers[k], rem, d.diskOk, now)

\* the working copy as failed remote attempts leave it
FileAfterRemote(d, rem, file) ==
  IF d.diskOk /\ \E k \in 1..Len(d.answers) : d.answers[k] = "200"
  THEN FileOf(rem.doc) ELSE file

BackupStageFailed(d, dir, now) ==
  ~(get_latest_valid_backup(dir, now).found /\ d.diskOk)

LocalUsable(d, f, now) ==
  f.exists /\ validate_database(f.doc, now).has_corrected /\ d.diskOk

\* C21: the stages of the download chain run in the order remote, latest
\* valid backup, existing local file, emergency-empty; the stage that ends
\* the chain ran only because every earlier stage failed, and nothing of a
\* later stage happens after a stage succeeded.
C21_LinearChain ==
  [][\A r \in Runs : DownloadStep(r) =>
       /\ \A k \in 1..(Len(dl'[r].source) - 1) :
            StageNumber(dl'[r].source[k].stage) < StageNumber(dl'[r].source[k + 1].stage)
       /\ TerminalStage(dl'[r]) >= 2 => RemoteFailed(dl'[r], remote, clock)
       /\ TerminalStage(dl'[r]) >= 3 => BackupStageFailed(dl'[r], backups, clock)
       /\ TerminalStage(dl'[r]) >= 4 =>
            ~LocalUsable(dl'[r], FileAfterRemote(dl'[r], remote, localFile), clock)
       /\ TerminalStage(dl'[r]) = 1 =>
            /\ ~AttemptFailed(dl'[r].answers[Len(dl'[r].answers)], remote, TRUE, clock)
            /\ localFile'.doc.history = dl'[r].content.history
       /\ TerminalStage(dl'[r]) = 2 =>
            /\ dl'[r].content = get_latest_valid_backup(backups, clock).content
            /\ localFile' = FileOf(dl'[r].content)
            /\ backups' = backups
       /\ TerminalStage(dl'[r]) = 3 =>
            /\ LocalUsable(dl'[r], FileAfterRemote(dl'[r], remote, localFile), clock)
            /\ localFile'.doc.history = dl'[r].content.history]_vars

\* a protected download that went through the remote and backup stages and
\* ended at the existing local file
C21_Witness ==
  \E r \in Runs :
     /\ pc[r] = "dl_done"
     /\ dl[r].success
     /\ Len(dl[r].source) = 3
     /\ TerminalStage(dl[r]) = 3

\* C22: one safe_download makes at most DOWNLOAD_RETRY_ATTEMPTS remote
\* attempts; every attempt but the last one made has failed, an attempt that
\* failed is followed by another while fewer than DOWNLOAD_RETRY_ATTEMPTS
\* were made, and the backup stage is entered only after
\* DOWNLOAD_RETRY_ATTEMPTS failed attempts.
C22_RetryBound ==
  [][\A r \in Runs : DownloadStep(r) =>
       /\ Len(dl'[r].answers) \in 1..DOWNLOAD_RETRY_ATTEMPTS
       /\ \A k \in 1..(Len(dl'[r].answers) - 1) :
            AttemptFailed(dl'[r].answers[k], remote, dl'[r].diskOk, clock)
       /\ Len(dl'[r].answers) < DOWNLOAD_RETRY_ATTEMPTS =>
            /\ TerminalStage(dl'[r]) = 1
            /\ dl'[r].source[1].arg = <<Len(dl'[r].answers)>>
       /\ TerminalStage(dl'[r]) >= 2 => RemoteFailed(dl'[r], remote, clock)]_vars

\* a protected download whose remote attempts all failed and that restored a
\* backup
C22_Witness ==
  \E r \in Runs :
     /\ pc[r] = "dl_done"
     /\ Len(dl[r].answers) = DOWNLOAD_RETRY_ATTEMPTS
     /\ TerminalStage(dl[r]) = 2

----------------------------------------------------------------------------
(* The protected upload seen from outside (SpecUpload): ul records what the *)
(* call met (failures, disk) and what it did (attempts, success)            *)

UploadStep == lastOp' = "upload"

\* the local steps of atomic_upload go through: the disk takes the backup
\* and the temporary file, and the content is valid or correctable
LocalStepsPass(u, file, now) ==
  u.disk = "ok" /\ validate_database(file.doc, now).has_corrected

\* C23: one atomic_upload makes at most UPLOAD_RETRY_ATTEMPTS upload
\* attempts; it returns true at the first attempt that succeeds, making no
\* further attempt, and returns false exactly when all
\* UPLOAD_RETRY_ATTEMPTS attempts failed or a local step before them failed.
C23_UploadRetryBound ==
  [][UploadStep =>
       /\ ul'[E].attempts <= UPLOAD_RETRY_ATTEMPTS
       /\ ul'[E].success =>
            /\ ul'[E].attempts = ul'[E].failures + 1
            /\ remote' = localFile'
       /\ ~ul'[E].success <=>
            \/ ~LocalStepsPass(ul'[E], localFile, clock)
            \/ (ul'[E].attempts = UPLOAD_RETRY_ATTEMPTS
                  /\ ul'[E].failures >= UPLOAD_RETRY_ATTEMPTS)]_vars

\* an upload that succeeded at its second attempt
C23_Witness ==
  /\ lastOp = "upload"
  /\ ul[E].success
  /\ ul[E].failures = 1
  /\ ul[E].attempts = 2
  /\ remote.exists

\* C24: atomic_upload makes a remote upload call only after it created the
\* pre-upload backup and put the validated content onto the working copy;
\* when the backup or a local write fails, or the content cannot be
\* validated, it returns false without any remote call and the remote
\* document stays as it was.
C24_FailClosedUpload ==
  [][UploadStep =>
       /\ ul'[E].attempts > 0 =>
            /\ LocalStepsPass(ul'[E], localFile, clock)
            /\ HasBackupNamed(backups', BackupName(clock, <<session[E]>>))
            /\ localFile'.exists
            /\ validate_database(localFile'.doc, clock).is_valid
            /\ localFile'.doc.history = validate_database(localFile.doc, clock).corrected.history
       /\ ~LocalStepsPass(ul'[E], localFile, clock) =>
            /\ ~ul'[E].success
            /\ ul'[E].attempts = 0
            /\ remote' = remote
            /\ localFile' = localFile]_vars

\* an upload call stopped by a failed local write, after an upload that had
\* stored a document
C24_Witness ==
  /\ lastOp = "upload"
  /\ ul[E].disk = "no_write"
  /\ ul[E].attempts = 0
  /\ ~ul[E].success
  /\ remote.exists
  /\ backups # <<>>

----------------------------------------------------------------------------
(* Provenance of a protected download (Spec) *)

\* stage n of the chain was attempted by the download that returned d: the
\* existing-local-file stage is attempted when the working copy exists
StageAttempted(n, d, rem, file) ==
  /\ n <= TerminalStage(d)
  /\ n = 3 => FileAfterRemote(d, rem, file).exists

Names(source, n) == \E k \in 1..Len(source) : StageNumber(source[k].stage) = n

\* C25: the provenance safe_download returns names every stage that was
\* attempted, in order of attempt, ending with the stage that succeeded (a
\* failed local-file stage included), and the recovery_chain stored in an
\* emergency-empty database is that provenance.
C25_ProvenanceComplete ==
  [][\A r \in Runs : DownloadStep(r) =>
       /\ \A n \in 1..4 :
            StageAttempted(n, dl'[r], remote, localFile) => Names(dl'[r].source, n)
       /\ (dl'[r].success /\ TerminalStage(dl'[r]) = 4) =>
            localFile'.doc.metadata.recovery_chain = dl'[r].source]_vars

----------------------------------------------------------------------------
(* DatabaseBackupManager.create_backup and get_latest_valid_backup called  *)
(* directly on one backup directory                                        *)

MaxRestoreCalls == 3

\* what the callers hand to create_backup: valid ledgers, a ledger whose
\* entries are in the scraper's shape, a document with a non-dictionary
\* metadata value
RestoreContents ==
  BackupContents \cup
    { [history |-> [i \in {"A"} |-> <<ScraperEntry(0, Tenths(100))>>],
       metadata |-> EmptyMetadata],
      UncorrectableDoc }

Created(c) == IF c.fn = "none" THEN 0 ELSE c.created

InitRestore == InitBackup

RsTick ==
  /\ clock < MaxSeconds
  /\ clock' = clock + 1
  /\ call' = [fn |-> "tick", created |-> Created(call)]
  /\ UNCHANGED backups
  /\ BackupFrame

RsCreate(database_content) ==
  /\ Created(call) < MaxRestoreCalls
  /\ backups' = create_backup(backups, database_content, <<>>, clock).dir
  /\ call' = [fn |-> "create_backup", created |-> Created(call) + 1]
  /\ UNCHANGED clock
  /\ BackupFrame

\* backup_manager.get_latest_valid_backup()
RsLatest ==
  /\ call' = [fn |-> "get_latest_valid_backup", created |-> Created(call),
              result |-> get_latest_valid_backup(backups, clock)]
  /\ UNCHANGED <<clock, backups>>
  /\ BackupFrame

\* backup_manager.restore_from_backup(backup_path, target_path) onto the
\* working copy, the path naming a backup of the directory or no file
RsRestore(backup_path, diskOk) ==
  /\ LET r == restore_from_backup(backups, backup_path, localFile, clock, diskOk)
     IN /\ localFile' = r.file
        /\ call' = [fn |-> "restore_from_backup", created |-> Created(call),
                    backup_path |-> backup_path, result |-> r.success]
  /\ UNCHANGED <<clock, backups>>
  /\ UNCHANGED <<remote, lockHolder, session, pc, batch, duplicate_db, classes,
                 handle, dl, ul, lastOp, supabase, lockDir, lock_file>>

NextRestore ==
  \/ RsTick
  \/ \E d \in RestoreContents : RsCreate(d)
  \/ RsLatest
  \/ \E t \in 0..MaxSeconds, diskOk \in BOOLEAN : RsRestore(BackupName(t, <<>>), diskOk)

SpecRestore == InitRestore /\ [][NextRestore]_vars

\* the backups of the directory (by position, oldest first) that validate or
\* can be corrected
Qualifying(dir, now) ==
  {k \in 1..Len(dir) : validate_database(dir[k].doc, now).has_corrected}

Newest(ks) == CHOOSE k \in ks : \A j \in ks : j <= k

\* C26: get_latest_valid_backup returns, among the backups that are valid or
\* correctable, the most recently written one, with its content (corrected
\* when it was not valid); it returns nothing only when no backup qualifies.
C26_LatestValidBackup ==
  call.fn = "get_latest_valid_backup" =>
    LET ks == Qualifying(backups, clock)
    IN /\ call.result.found <=> ks # {}
       /\ ks # {} =>
            LET v == validate_database(backups[Newest(ks)].doc, clock)
            IN /\ call.result.name = backups[Newest(ks)].name
               /\ call.result.content = IF v.is_valid THEN v.input ELSE v.corrected

\* the newest backup is skipped and two older ones qualify
C26_Witness ==
  /\ call.fn = "get_latest_valid_backup"
  /\ call.result.found
  /\ Len(backups) = 3
  /\ Qualifying(backups, clock) = {1, 2}
  /\ backups[1].doc # backups[2].doc

----------------------------------------------------------------------------
(* FileLockManager: two processes acquiring, sweeping and releasing the     *)
(* lock files of the lock directory.  A process is at "idle", "polling"     *)
(* (inside acquire_database_lock, the file open), "locked" (acquire         *)
(* returned the handle), "unlocked" (acquire returned None) or "dead".      *)
(* The clock counts sweep-age units; a poll's sleep is counted per waiter.  *)

\* the polls that fit in the timeout of acquire_database_lock (timeout 30 s,
\* sleep 0.5 s), the age after which a lock file counts as stale
\* (max_age_minutes), the last clock value, the lock files one name gets
MaxPolls == 2
StaleAge == 1
MaxLockClock == 3
MaxInode == 2

\* fcntl.flock(LOCK_EX | LOCK_NB) by r fails: another process holds the lock
\* on the same file
FlockHeld(name, inode, r, at, sessions, files) ==
  \E o \in Runs \ {r} :
     /\ at[o] = "locked"
     /\ LockName(sessions[o]) = name
     /\ files[o].inode = inode

\* open(lock_path, 'w'): an existing file is truncated, a missing one created
opened(f, now) ==
  IF f.exists THEN [f EXCEPT !.mtime = now, !.content = ""]
  ELSE [exists |-> TRUE, mtime |-> now, content |-> "", inode |-> f.inode + 1]

\* lock_file.write(...): the "pid:" line reaches the directory's file when it
\* is the file the handle has open
written(f, inode, r, now) ==
  IF f.exists /\ f.inode = inode THEN [f EXCEPT !.mtime = now, !.content = r]
  ELSE f

\* the loop without its sleep
busy_poll(f) == f

\* time.sleep(0.5) at the end of a failed pass: the waiter's elapsed time
slept(f) == [f EXCEPT !.waited = @ + 1]

_is_process_running(pid, at) == at[pid] # "dead"

\* cleanup_stale_locks on one lock file
swept(f, now, at) ==
  IF f.exists /\ f.mtime < now - StaleAge
     /\ ~(f.content # "" /\ _is_process_running(f.content, at))
  THEN [f EXCEPT !.exists = FALSE]
  ELSE f

cleanup_stale_locks(dir, now, at) == [n \in DOMAIN dir |-> swept(dir[n], now, at)]

LockFrame ==
  UNCHANGED <<remote, localFile, backups, lockHolder, batch, duplicate_db,
              classes, dl, ul, lastOp, supabase, call>>

InitLock ==
  /\ clock = 0
  /\ remote = NoFile
  /\ localFile = NoFile
  /\ backups = <<>>
  /\ lockHolder = [s \in SessionIds |-> NoRun]
  /\ session = [r \in Runs |-> "s1"]
  /\ pc = [r \in Runs |-> "idle"]
  /\ batch = [r \in Runs |-> <<>>]
  /\ duplicate_db = [r \in Runs |-> EmptyDb]
  /\ classes = [r \in Runs |-> <<>>]
  /\ handle = [r \in Runs |-> FALSE]
  /\ dl = [r \in Runs |-> NoDl]
  /\ ul = [r \in Runs |-> NoUl]
  /\ lastOp = "none"
  /\ supabase = EmptySupabase
  /\ lockDir = NoLockDir
  /\ lock_file = [r \in Runs |-> NoLockFile]
  /\ call = NoCall

LkTick ==
  /\ clock < MaxLockClock
  /\ clock' = clock + 1
  /\ UNCHANGED <<session, pc, handle, lockDir, lock_file>>
  /\ LockFrame

\* acquire_database_lock(session_id) up to the loop: the lock file is opened
\* for writing; when the open fails the call returns None
LkOpen(r, session_id, ok) ==
  /\ pc[r] = "idle"
  /\ session' = [session EXCEPT ![r] = session_id]
  /\ IF ok
     THEN /\ lockDir[LockName(session_id)].exists
               \/ lockDir[LockName(session_id)].inode < MaxInode
          /\ lockDir' = [lockDir EXCEPT ![LockName(session_id)] = opened(@, clock)]
          /\ lock_file' = [lock_file EXCEPT ![r] =
                             [inode |-> lockDir'[LockName(session_id)].inode,
                              waited |-> 0]]
          /\ pc' = [pc EXCEPT ![r] = "polling"]
     ELSE /\ pc' = [pc EXCEPT ![r] = "unlocked"]
          /\ UNCHANGED <<lockDir, lock_file>>
  /\ UNCHANGED <<clock, handle>>
  /\ LockFrame

\* one pass of the loop: the flock is taken, the session lines are written
\* and the handle returned, or the pass sleeps
LkPoll(r) ==
  /\ pc[r] = "polling"
  /\ lock_file[r].waited < MaxPolls
  /\ IF ~FlockHeld(LockName(session[r]), lock_file[r].inode, r, pc, session, lock_file)
     THEN /\ lockDir' = [lockDir EXCEPT ![LockName(session[r])] =
                           written(@, lock_file[r].inode, r, clock)]
          /\ handle' = [handle EXCEPT ![r] = TRUE]
          /\ pc' = [pc EXCEPT ![r] = "locked"]
          /\ UNCHANGED lock_file
     ELSE /\ lock_file' = [lock_file EXCEPT ![r] = slept(@)]
          /\ UNCHANGED <<lockDir, handle, pc>>
  /\ UNCHANGED <<clock, session>>
  /\ LockFrame

\* the loop ends with the timeout reached: the file is closed, None returned
LkTimeout(r) ==
  /\ pc[r] = "polling"
  /\ lock_file[r].waited >= MaxPolls
  /\ lock_file' = [lock_file EXCEPT ![r] = NoLockFile]
  /\ pc' = [pc EXCEPT ![r] = "unlocked"]
  /\ UNCHANGED <<clock, session, handle, lockDir>>
  /\ LockFrame

\* cleanup_stale_locks(), called inside a protected operation after the
\* acquire call returned
LkCleanup(r) ==
  /\ pc[r] \in {"locked", "unlocked"}
  /\ lockDir' = cleanup_stale_locks(lockDir, clock, pc)
  /\ UNCHANGED <<clock, session, pc, handle, lock_file>>
  /\ LockFrame

\* the end of the protected operation: release_database_lock(lock_handle)
\* when there is a handle
LkRelease(r) ==
  /\ pc[r] \in {"locked", "unlocked"}
  /\ pc' = [pc EXCEPT ![r] = "idle"]
  /\ handle' = [handle EXCEPT ![r] = FALSE]
  /\ lock_file' = [lock_file EXCEPT ![r] = NoLockFile]
  /\ UNCHANGED <<clock, session, lockDir>>
  /\ LockFrame

\* the process holding a lock is killed: the system drops its flock, the
\* lock file stays
LkCrash(r) ==
  /\ pc[r] = "locked"
  /\ pc' = [pc EXCEPT ![r] = "dead"]
  /\ UNCHANGED <<clock, session, handle, lockDir, lock_file>>
  /\ LockFrame

NextLock ==
  \/ LkTick
  \/ \E r \in Runs :
       \/ \E session_id \in SessionIds, ok \in BOOLEAN : LkOpen(r, session_id, ok)
       \/ LkPoll(r)
       \/ LkTimeout(r)
       \/ LkCleanup(r)
       \/ LkRelease(r)
       \/ LkCrash(r)

SpecLock == InitLock /\ [][NextLock]_vars

\* the scheduler runs a process that is inside acquire_database_lock
SpecLockFair ==
  SpecLock /\ \A r \in Runs : WF_vars(LkPoll(r)) /\ WF_vars(LkTimeout(r))

\* a live process holds the flock on the file the directory has under name
HeldByLive(name) ==
  \E r \in Runs :
     /\ pc[r] = "locked"
     /\ LockName(session[r]) = name
     /\ lock_file[r].inode = lockDir[name].inode

\* C27: cleanup_stale_locks removes a lock file only if the file is older
\* than the age threshold and names no live owning process, and never the
\* lock file of a lock a live process holds, also when a waiting process has
\* opened that file.
C27_CleanupKeepsHeldLocks ==
  [][\A name \in SessionIds :
       (lockDir[name].exists /\ ~lockDir'[name].exists) =>
          /\ lockDir[name].mtime < clock - StaleAge
          /\ ~HeldByLive(name)]_vars

\* C29: a process inside acquire_database_lock leaves it: a poll that finds
\* the lock free returns the handle, and None is returned only once the
\* timeout has elapsed; the holder need never release.
C29_AcquireTerminates ==
  /\ \A r \in Runs : (pc[r] = "polling") ~> (pc[r] \in {"locked", "unlocked"})
  /\ [][\A r \in Runs :
         (pc[r] = "polling" /\ <<pc[r], lock_file[r]>>' # <<pc[r], lock_file[r]>>) =>
            /\ (lock_file[r].waited < MaxPolls
                  /\ ~FlockHeld(LockName(session[r]), lock_file[r].inode, r,
                                 pc, session, lock_file))
                 => (pc'[r] = "locked" /\ handle'[r])
            /\ pc'[r] = "unlocked" => lock_file[r].waited >= MaxPolls]_vars

\* a waiter returned None while the holder still holds the lock
C29_Witness ==
  \E r, o \in Runs :
     /\ pc[r] = "unlocked"
     /\ pc[o] = "locked"
     /\ session[r] = session[o]
     /\ lockDir[LockName(session[r])].content = ""

----------------------------------------------------------------------------
(* The lock around the protected operations (Spec) *)

\* run r returns from safe_download_database or safe_upload_database
ProtectedReturn(r) ==
  \/ pc[r] = "dl_body" /\ pc'[r] = "dl_done"
  \/ pc[r] = "ul_body" /\ pc'[r] = "done"

\* C28: when safe_download_database or safe_upload_database returns, on
\* success, on failure or early, the caller holds no lock: a lock it acquired
\* has been released.
C28_LockReleased ==
  [][\A r \in Runs : ProtectedReturn(r) =>
       \A name \in SessionIds : lockHolder'[name] # r]_vars

\* a run that acquired the lock for its upload has returned from a failed
\* upload and another run holds the same lock after it
C28_Witness ==
  \E r, o \in Runs :
     /\ pc[r] = "done"
     /\ handle[r]
     /\ ~ul[r].success
     /\ session[o] = session[r]
     /\ lockHolder[LockName(session[o])] = o

----------------------------------------------------------------------------
(* filter_duplicates as a partition of the batch (SpecEngine) *)

Known(db, car) == car.unique_id \in DOMAIN db

Moved(db, car) ==
  Abs(car.price_numeric - db[car.unique_id].last_price) >= PRICE_CHANGE_THRESHOLD

Positions(cars, P(_)) == Cardinality({k \in 1..Len(cars) : P(cars[k])})

\* C30: filter_duplicates counts every record of the batch once, as new,
\* changed or unchanged (the three counters sum to the batch size), returns
\* the new and the changed records in input order, and leaves duplicate_db
\* as it was.
C30_FilterPartition ==
  [][lastOp' = "filter" =>
       LET db == duplicate_db[E]
           cars == batch[E]
           res == call'.result
       IN /\ res.new_count + res.price_change_count + res.duplicate_count = Len(cars)
          /\ res.new_count = Positions(cars, LAMBDA c : ~Known(db, c))
          /\ res.price_change_count =
               Positions(cars, LAMBDA c : Known(db, c) /\ Moved(db, c))
          /\ res.filtered_cars =
               SelectSeq(cars, LAMBDA c : ~Known(db, c) \/ Moved(db, c))
          /\ duplicate_db' = duplicate_db]_vars

\* a batch with a changed and an unchanged record has been filtered
C30_Witness ==
  /\ call.fn = "filter_duplicates"
  /\ call.result.price_change_count = 1
  /\ call.result.duplicate_count = 1
  /\ Len(call.result.filtered_cars) = 1

----------------------------------------------------------------------------
(* restore_from_backup (SpecRestore) *)

BackupsNamed(dir, name) == {k \in 1..Len(dir) : dir[k].name = name}

\* C31: restore_from_backup on a backup that cannot be read or is neither
\* valid nor correctable returns False and leaves the target file as it was;
\* when it returns True the target holds the validated content of the backup,
\* its whole history.
C31_RestoreAllOrNothing ==
  [][call'.fn = "restore_from_backup" =>
       LET ks == BackupsNamed(backups, call'.backup_path)
       IN /\ (ks = {} \/ \A k \in ks : k \notin Qualifying(backups, clock))
              => ~call'.result
          /\ ~call'.result => localFile' = localFile
          /\ call'.result =>
               \E k \in ks :
                  /\ localFile'.exists
                  /\ localFile'.doc = validate_database(backups[k].doc, clock).corrected
                  /\ validate_database(backups[k].doc, clock).is_valid =>
                       localFile'.doc.history = backups[k].doc.history]_vars

\* a restore from an uncorrectable backup has failed over a target that an
\* earlier restore wrote
C31_Witness ==
  /\ call.fn = "restore_from_backup"
  /\ ~call.result
  /\ localFile.exists
  /\ \E k \in BackupsNamed(backups, call.backup_path) :
        k \notin Qualifying(backups, clock)

----------------------------------------------------------------------------
(* validate_database and its input (SpecValidator) *)

\* C32: validate_database does not modify its input: after the call the input
\* document has the history and the metadata it had before the call.
C32_InputUnmodified ==
  (call.fn = "validate_database" /\ call.x.type = "dict") =>
     call.result.input = DocOf(call.x)


\* C33: for an input whose history maps ids to lists, the number of input
\* observations is validation_stats.total_entries plus
\* validation_stats.corrupted_entries_removed, and total_entries is the
\* number of observations of the corrected history.
C33_ValidatorAccounting ==
  (call.fn = "validate_database" /\ call.result.has_corrected) =>
     LET stats == call.result.corrected.metadata.validation_stats
     IN /\ NumObs(call.x.history) = stats[2] + stats[3]
        /\ stats[2] = NumObs(call.result.corrected.history)
        /\ stats[1] = NumIds(call.result.corrected.history)

\* a validation that kept some observations and discarded several
C33_Witness ==
  /\ call.fn = "validate_database"
  /\ call.result.has_corrected
  /\ call.result.corrected.metadata.validation_stats[2] >= 1
  /\ call.result.corrected.metadata.validation_stats[3] >= 2

----------------------------------------------------------------------------
(* download_database of the two clients, GitHubDatabaseSync and            *)
(* SupabaseSync, called directly on one working copy                       *)

\* the ledger SupabaseSync.download_database builds: per car one entry from
\* its cars row, then one per price_history row of the car
supabase_history(sb) ==
  [i \in DOMAIN sb.cars |->
     <<ScraperEntry(IF sb.cars[i].first_seen # Absent THEN sb.cars[i].first_seen
                    ELSE sb.cars[i].scraped_at,
                    PriceOrNone(sb.cars[i].price))>>
       \o [k \in 1..Len(SelectSeq(sb.price_history, LAMBDA u : u.car_unique_id = i)) |->
            LET u == SelectSeq(sb.price_history, LAMBDA w : w.car_unique_id = i)[k]
            IN ScraperEntry(u.recorded_at, PriceOrNone(u.price))]]

\* SupabaseSync.download_database(local_path): the tables written to the
\* local file, or, when the backend raises, an empty database; True either way
supabase_download_database(sb, backendOk, now) ==
  IF backendOk
  THEN [success |-> TRUE,
        file |-> FileOf([history |-> supabase_history(sb),
                         metadata |-> [EmptyMetadata EXCEPT !.last_update = now]])]
  ELSE [success |-> TRUE,
        file |-> FileOf([history |-> EmptyHistory,
                         metadata |-> [EmptyMetadata EXCEPT !.created = now]])]

DownloadFrame ==
  UNCHANGED <<clock, remote, backups, lockHolder, session, pc, batch, duplicate_db,
              classes, handle, dl, ul, lastOp, supabase, lockDir, lock_file>>

InitDownload ==
  /\ clock = 0
  /\ remote \in {NoFile} \cup {FileOf(d) : d \in RemoteDocs}
  /\ localFile \in {NoFile} \cup {FileOf(d) : d \in StoredDocs}
  /\ backups = <<>>
  /\ lockHolder = [s \in SessionIds |-> NoRun]
  /\ session = [r \in Runs |-> "s1"]
  /\ pc = [r \in Runs |-> "api"]
  /\ batch = [r \in Runs |-> <<>>]
  /\ duplicate_db = [r \in Runs |-> EmptyDb]
  /\ classes = [r \in Runs |-> <<>>]
  /\ handle = [r \in Runs |-> FALSE]
  /\ dl = [r \in Runs |-> NoDl]
  /\ ul = [r \in Runs |-> NoUl]
  /\ lastOp = "none"
  /\ supabase \in {[cars |-> t, price_history |-> <<>>] : t \in SupabaseTables}
  /\ lockDir = NoLockDir
  /\ lock_file = [r \in Runs |-> NoLockFile]
  /\ call = NoCall

\* GitHubDatabaseSync.download_database(local_path); stored: the request
\* brought the stored database
DnGitHub(answer, diskOk) ==
  /\ LET d == download_database(remote, answer, localFile, diskOk)
     IN /\ localFile' = d.file
        /\ call' = [fn |-> "download_database", client |-> "github",
                    stored |-> d.success /\ d.status = "200", result |-> d.success]
  /\ DownloadFrame

\* SupabaseSync.download_database(local_path)
DnSupabase(backendOk) ==
  /\ LET d == supabase_download_database(supabase, backendOk, clock)
     IN /\ localFile' = d.file
        /\ call' = [fn |-> "download_database", client |-> "supabase",
                    stored |-> backendOk, result |-> d.success]
  /\ DownloadFrame

NextDownload ==
  \/ \E answer \in {"served", "refused", "timeout"}, diskOk \in BOOLEAN :
       DnGitHub(answer, diskOk)
  \/ \E backendOk \in BOOLEAN : DnSupabase(backendOk)

SpecDownload == InitDownload /\ [][NextDownload]_vars

\* C34: a download_database call, of either client, that does not bring the
\* stored database (transport error, HTTP error, not found, backend
\* exception) leaves the history of an existing local working copy as it was.
C34_FailedDownloadKeepsLocal ==
  [][(call'.fn = "download_database" /\ ~call'.stored /\ localFile.exists) =>
       /\ localFile'.exists
       /\ localFile'.doc.history = localFile.doc.history]_vars

----------------------------------------------------------------------------
(* The content a protected download returns (Spec) *)

\* C35: whenever safe_download returns success, the content it returns
\* passes validate_database with is_valid true (no corrupted entry),
\* whichever stage produced it.
C35_ReturnedContentValid ==
  \A r \in Runs :
     dl[r].success =>
        /\ validate_database(dl[r].content, clock).is_valid
        /\ corrupted_count(dl[r].content.history) = 0

\* a download succeeded with a remote document that had to be corrected
C35_Witness ==
  \E r \in Runs :
     /\ dl[r].success
     /\ dl[r].source[Len(dl[r].source)].stage = "GitHub download corrected"

----------------------------------------------------------------------------
(* The price_history rows _save_batch appends (SpecSupabase) *)

HistoryRows(sb, id) == Len(SelectSeq(sb.price_history, LAMBDA u : u.car_unique_id = id))

\* the stored price and the new one differ by at least 1; a NULL price
\* differs from every number
PriceDiffers(stored, new) ==
  IF stored = Absent \/ new = Absent THEN stored # new
  ELSE Abs(stored - new) >= Tenths(1)

\* C38: a save appends a price_history row for a car exactly when the car is
\* already in the cars table and its stored price and the new price differ
\* by at least 1, whatever the stored price (0 and NULL included).
C38_PriceRowOnChange ==
  [][(lastOp' = "save" /\ batch[E] # <<>>
        /\ Cardinality(BatchIds(call'.returned)) = Len(call'.returned)) =>
       \A k \in 1..Len(call'.returned) :
          LET car == call'.returned[k]
          IN IF car.unique_id \in DOMAIN supabase.cars
             THEN HistoryRows(supabase', car.unique_id) > HistoryRows(supabase, car.unique_id)
                    <=> PriceDiffers(supabase.cars[car.unique_id].price, SupabasePrice(car))
             ELSE HistoryRows(supabase', car.unique_id) = HistoryRows(supabase, car.unique_id)]_vars

----------------------------------------------------------------------------
(* OLXScrapingEngineSupabase.save_duplicate_database called directly with   *)
(* lists longer than a batch and longer than the per-run limit.  The limits *)
(* BATCH_SIZE (100) and MAX_NEW_CARS_PER_RUN (1000) are scaled down.        *)

BatchSize == 1
MaxNewCars == 2
MaxList == 3
MaxSaves == 2

Shorter(a, b) == IF a < b THEN a ELSE b

\* the loop of save_cars_data over the batches of cars, batch number n next;
\* the backend fails on batch number failAt
RECURSIVE save_batches(_, _, _, _)
save_batches(sb, cars, n, failAt) ==
  IF cars = <<>> THEN [success |-> TRUE, sb |-> sb]
  ELSE IF n = failAt THEN [success |-> FALSE, sb |-> sb]
  ELSE LET saved == save_batch(sb, SubSeq(cars, 1, Shorter(BatchSize, Len(cars))))
       IN IF ~saved.success THEN saved
          ELSE save_batches(saved.sb,
                            SubSeq(cars, Shorter(BatchSize, Len(cars)) + 1, Len(cars)),
                            n + 1, failAt)

\* save_cars_data(cars_list): an empty list returns True, a list above the
\* per-run limit is cut to the limit, then the batches are saved in turn
save_cars_list(sb, cars_list, failAt) ==
  IF cars_list = <<>> THEN [success |-> TRUE, sb |-> sb]
  ELSE save_batches(sb, SubSeq(cars_list, 1, Shorter(MaxNewCars, Len(cars_list))),
                    1, failAt)

\* the lists of new cars: distinct listings, one price each
NewCarLists ==
  {l \in UNION {[1..n -> {"A", "B", "C"}] : n \in 1..MaxList} :
     \A j, k \in 1..Len(l) : j # k => l[j] # l[k]}

CarsOf(l, now) == [k \in 1..Len(l) |-> Car(l[k], <<"1", "0", "1">>, now)]

Saves(c) == IF c.fn = "none" THEN 0 ELSE c.saves

InitSaveCars == InitBackup

\* engine.save_duplicate_database(new_cars)
ScSave(new_cars, failAt) ==
  /\ Saves(call) < MaxSaves
  /\ LET saved == save_cars_list(supabase, new_cars, failAt)
         s == supabase_saved(duplicate_db[E], saved, new_cars)
     IN /\ supabase' = s.sb
        /\ duplicate_db' = [duplicate_db EXCEPT ![E] = s.db]
        /\ call' = [fn |-> "save_duplicate_database", saves |-> Saves(call) + 1,
                    cars_list |-> new_cars, failAt |-> failAt,
                    result |-> saved.success]
  /\ UNCHANGED <<clock, remote, localFile, backups, lockHolder, session, pc, batch,
                 classes, handle, dl, ul, lastOp, lockDir, lock_file>>

NextSaveCars ==
  \E l \in NewCarLists, failAt \in 0..MaxList : ScSave(CarsOf(l, clock), failAt)

SpecSaveCars == InitSaveCars /\ [][NextSaveCars]_vars

\* C36: when save_cars_data returned True every car of its input list is in
\* the cars table, and the engine's duplicate_db holds only cars that are in
\* the cars table.
C36_SavedMeansPersisted ==
  (call.fn = "save_duplicate_database" /\ call.result) =>
     /\ BatchIds(call.cars_list) \subseteq DOMAIN supabase.cars
     /\ DOMAIN duplicate_db[E] \subseteq DOMAIN supabase.cars

----------------------------------------------------------------------------
(* records of one batch sharing a unique_id (SpecEngine) *)

HistoryOf(file, id) ==
  IF file.exists /\ id \in DOMAIN file.doc.history
  THEN file.doc.history[id] ELSE <<>>

\* the observations save_duplicate_database builds for the records of the
\* batch that carry the id, in batch order
RECURSIVE BatchEntries(_, _)
BatchEntries(cars, id) ==
  IF cars = <<>> THEN <<>>
  ELSE IF cars[1].unique_id = id
       THEN <<ScraperEntry(cars[1].scrape_date, cars[1].price_numeric)>>
              \o BatchEntries(Tail(cars), id)
       ELSE BatchEntries(Tail(cars), id)

\* C37: every record of a batch is classified against duplicate_db as it
\* was before the batch, whatever the other records of the batch are, and
\* the save appends one observation per record: an id occurring k times in
\* the batch has k more observations in the persisted history, in batch
\* order.
C37_RepeatedIdsAppended ==
  [][/\ lastOp' = "filter" =>
          \A k \in 1..Len(batch[E]) :
             classes'[E][k] = Classify(duplicate_db[E], batch[E][k])
     /\ lastOp' = "save" =>
          \A id \in BatchIds(batch[E]) :
             HistoryOf(localFile', id) =
               HistoryOf(localFile, id) \o BatchEntries(batch[E], id)]_vars

----------------------------------------------------------------------------
(* validate_database applied to its own corrected result (SpecValidator) *)

\* C39: for a dictionary input with a corrected result C,
\* validate_database(C) reports is_valid, counts no corrupted entry and
\* returns a corrected history equal to C's history.
C39_ValidatorIdempotent ==
  call.fn = "revalidate" =>
     /\ call.result.is_valid
     /\ call.result.has_corrected
     /\ call.result.corrected.metadata.validation_stats[3] = 0
     /\ call.result.corrected.history = call.corrected.history

\* the first validation discarded observations and kept others, and its
\* result has been validated again
C39_Witness ==
  /\ call.fn = "revalidate"
  /\ NumObs(call.corrected.history) >= 2
  /\ NumObs(call.x.history) > NumObs(call.corrected.history)

====
